---------------------------- MODULE Spec2Model ----------------------------
(***************************************************************************)
(* Model of the technical analysis and decision engine:                    *)
(*   src/src/data/market_data.py  (MarketData)                             *)
(*   src/src/core/analyzer.py     (TradeAnalyzer)                          *)
(*                                                                         *)
(* Representation of the Python values.                                    *)
(*   - A decimal number is the integer count of its hundredths (150.0 is   *)
(*     15000, a change of 2.5 percent is 250, an RSI of 70 is 7000).       *)
(*     Arithmetic is exact decimal arithmetic; the binary rounding error   *)
(*     of the floats is not modelled.                                      *)
(*   - An Optional value is a sequence: None is << >>, a present value v   *)
(*     is << v >>.                                                         *)
(*   - A dict is a function whose DOMAIN is its set of keys; d.get(k, x)   *)
(*     is Get(d, k, x).                                                    *)
(*   - An exception raised by a function that has no handler of its own    *)
(*     is the returned string TypeError; every try/except of the source    *)
(*     is part of the operator that models the function.                   *)
(*   - A tag is a string; Spelling gives its characters, so that the       *)
(*     substring tests of the source are computed, not assumed.            *)
(*                                                                         *)
(* The variables. A single call is op(args) with its position pc and its   *)
(* returned value ret; its local variables live inside the operator that   *)
(* models the function, and locals is empty. Where several calls of        *)
(* analyze_quote run at once (SpecWorkers), args, pc and ret hold one      *)
(* entry per worker and locals holds the local variables of each call.     *)
(* The API key manager (src/src/data/api_key_manager.py) is an object that  *)
(* its callers share: key_manager holds its fields, clock is the time       *)
(* datetime.now() returns, in seconds, and issued records the keys that     *)
(* get_api_key handed out. The calls of the engine leave the three alone.   *)
(***************************************************************************)
EXTENDS Integers, Sequences, FiniteSets, TLC

VARIABLES op, args, pc, ret, locals, key_manager, clock, issued

vars == <<op, args, pc, ret, locals, key_manager, clock, issued>>

key_vars == <<key_manager, clock, issued>>

---------------------------------------------------------------------------
(* Python values *)

None == << >>

Some(v) == << v >>

Val(x) == x[1]

EmptyDict == [k \in {} |-> None]

Get(d, k, default) == IF k \in DOMAIN d THEN d[k] ELSE default

\* Python truth value of an Optional number: None and 0 are falsy.
Truthy(x) == x # None /\ Val(x) # 0

TypeError == "TypeError"

\* No key manager has been constructed: the state of the three variables
\* of the key manager in the calls of the engine.
NoKeyManager ==
  /\ key_manager = None
  /\ clock = 0
  /\ issued = None

---------------------------------------------------------------------------
(* Program constants (numbers in hundredths where they are decimals) *)

TREND_UP_PCT == 100

TREND_DOWN_PCT == -100

RSI_OVERBOUGHT == 7000

RSI_OVERSOLD == 3000

VOLATILITY_HIGH_PCT == 50

VOLATILITY_MEDIUM_PCT == 25

BASE_WIN_RATE == 50

SIGNAL_BONUS == 5

STRONG_BONUS == 10

MODERATE_BONUS == 5

WIN_RATE_CAP == 90

---------------------------------------------------------------------------
(* Strings: the tags and the substring test `needle in tag` *)

Spelling(s) ==
  CASE s = "overbought"  -> <<"o","v","e","r","b","o","u","g","h","t">>
    [] s = "oversold"    -> <<"o","v","e","r","s","o","l","d">>
    [] s = "bullish_macd" -> <<"b","u","l","l","i","s","h","_","m","a","c","d">>
    [] s = "bearish_macd" -> <<"b","e","a","r","i","s","h","_","m","a","c","d">>
    [] s = "strong_buy"  -> <<"s","t","r","o","n","g","_","b","u","y">>
    [] s = "buy"         -> <<"b","u","y">>
    [] s = "strong_sell" -> <<"s","t","r","o","n","g","_","s","e","l","l">>
    [] s = "sell"        -> <<"s","e","l","l">>
    [] s = "trend_following_buy" ->
         <<"t","r","e","n","d","_","f","o","l","l","o","w","i","n","g","_","b","u","y">>
    [] s = "trend_following_sell" ->
         <<"t","r","e","n","d","_","f","o","l","l","o","w","i","n","g","_","s","e","l","l">>
    [] s = "high_volatility" ->
         <<"h","i","g","h","_","v","o","l","a","t","i","l","i","t","y">>
    [] s = "bullish"     -> <<"b","u","l","l","i","s","h">>
    [] s = "bearish"     -> <<"b","e","a","r","i","s","h">>

\* Python's `needle in s` on strings.
StrIn(needle, s) ==
  LET n == Spelling(needle)
      h == Spelling(s)
  IN  \E i \in 1..(Len(h) - Len(n) + 1) : SubSeq(h, i, i + Len(n) - 1) = n

\* The closed vocabulary of tags.
Vocabulary ==
  {"overbought", "oversold", "bullish_macd", "bearish_macd", "strong_buy",
   "buy", "strong_sell", "sell", "trend_following_buy",
   "trend_following_sell", "high_volatility"}

---------------------------------------------------------------------------
(* MarketData *)

\* MarketData.get_stock_data: the scraper's quote, updated with its
\* indicators when it has any; None when the scraper has no quote.
get_stock_data(stock_data, indicators) ==
  IF stock_data = None \/ DOMAIN Val(stock_data) = {}
  THEN None
  ELSE IF indicators # None /\ DOMAIN Val(indicators) # {}
       THEN Some(Val(indicators) @@ Val(stock_data))
       ELSE stock_data

_analyze_technical_indicators(data) ==
  LET rsi == Get(data, "rsi", None)
      rsi_signals ==
        IF rsi # None
        THEN IF Val(rsi) > RSI_OVERBOUGHT THEN <<"overbought">>
             ELSE IF Val(rsi) < RSI_OVERSOLD THEN <<"oversold">>
             ELSE << >>
        ELSE << >>
      macd == Get(data, "macd", Some(EmptyDict))
      macd_signals ==
        IF macd # None /\ DOMAIN Val(macd) # {}
        THEN LET macd_line == Get(Val(macd), "macd", None)
                 signal_line == Get(Val(macd), "signal", None)
             IN  IF macd_line # None /\ signal_line # None
                 THEN IF Val(macd_line) > Val(signal_line)
                      THEN <<"bullish_macd">>
                      ELSE <<"bearish_macd">>
                 ELSE << >>
        ELSE << >>
  IN  [trend |-> "neutral", strength |-> "weak",
       signals |-> rsi_signals \o macd_signals]

\* Mutant of _determine_trend: the thresholds are inclusive (>= and <=).
determine_trend_inclusive(data) ==
  LET change == Get(data, "change", Some(0))
  IN  IF change = None THEN TypeError
      ELSE IF Val(change) >= TREND_UP_PCT THEN "uptrend"
      ELSE IF Val(change) <= TREND_DOWN_PCT THEN "downtrend"
      ELSE "sideways"

\* Raises TypeError when 'change' is present and None (None > 1).
_determine_trend(data) ==
  LET change == Get(data, "change", Some(0))
  IN  IF change = None THEN TypeError
      ELSE IF Val(change) > TREND_UP_PCT THEN "uptrend"
      ELSE IF Val(change) < TREND_DOWN_PCT THEN "downtrend"
      ELSE "sideways"

\* Mutant of SpreadExceeds: the comparison is inclusive (>= for >).
SpreadReaches(high, low, pct) ==
  IF low > 0 THEN (high - low) * 100 >= pct * low
             ELSE (high - low) * 100 <= pct * low

\* (high - low) / low * 100 > pct, for low # 0, without the division.
SpreadExceeds(high, low, pct) ==
  IF low > 0 THEN (high - low) * 100 > pct * low
             ELSE (high - low) * 100 < pct * low

_calculate_volatility(data) ==
  LET high == Get(data, "52w_high", Some(0))
      low == Get(data, "52w_low", Some(0))
  IN  IF Truthy(high) /\ Truthy(low) /\ Val(high) > Val(low)
      THEN IF SpreadExceeds(Val(high), Val(low), VOLATILITY_HIGH_PCT)
           THEN "high"
           ELSE IF SpreadExceeds(Val(high), Val(low), VOLATILITY_MEDIUM_PCT)
           THEN "medium"
           ELSE "low"
      ELSE "low"

_find_support_resistance(data) ==
  [support |-> Get(data, "52w_low", None),
   resistance |-> Get(data, "52w_high", None)]

\* Called only where _determine_trend does not raise; analyze_stock handles
\* the exception that otherwise propagates through this function.
_analyze_price_action(data) ==
  [trend |-> _determine_trend(data),
   volatility |-> _calculate_volatility(data),
   support_resistance |-> _find_support_resistance(data)]

_generate_signals(technical_analysis, price_analysis) ==
  technical_analysis["signals"]
    \o (IF price_analysis["trend"] = "uptrend" THEN <<"trend_following_buy">>
        ELSE IF price_analysis["trend"] = "downtrend"
        THEN <<"trend_following_sell">>
        ELSE << >>)
    \o (IF price_analysis["volatility"] = "high" THEN <<"high_volatility">>
        ELSE << >>)

_get_empty_analysis ==
  [data |-> EmptyDict,
   technical_analysis |-> [trend |-> "neutral", strength |-> "weak",
                           signals |-> << >>],
   price_analysis |-> [trend |-> "sideways", volatility |-> "low",
                       support_resistance |-> [support |-> None,
                                               resistance |-> None]],
   signals |-> << >>]

\* MarketData.analyze_stock from line 89 on: the analysis of what
\* get_stock_data returned. The TypeError of _determine_trend is caught by
\* the handler of lines 110-112, which returns the empty analysis.
analyze_data(source) ==
  IF source = None \/ DOMAIN Val(source) = {} THEN _get_empty_analysis
  ELSE LET data == Val(source)
           technical_analysis == _analyze_technical_indicators(data)
           price_analysis == _analyze_price_action(data)
       IN  IF _determine_trend(data) = TypeError
           THEN _get_empty_analysis
           ELSE [data |-> data,
                 technical_analysis |-> technical_analysis,
                 price_analysis |-> price_analysis,
                 signals |-> _generate_signals(technical_analysis,
                                               price_analysis)]

\* MarketData.analyze_stock on the scraper's two answers for the symbol.
analyze_stock(stock_data, indicators) ==
  analyze_data(get_stock_data(stock_data, indicators))

---------------------------------------------------------------------------
(* TradeAnalyzer *)

\* Python's round(x, 2) of the exact decimal n/d hundredths, as the set of
\* its possible results: the nearest hundredth, and at an exact decimal tie
\* either neighbour, because the binary float that stands for the decimal
\* lies on one side of the tie or the other (round(0.505, 2) is 0.51 and
\* round(0.475, 2) is 0.47).
round2(n, d) ==
  LET q == n \div d
      r == n % d
  IN  IF 2 * r < d THEN {q}
      ELSE IF 2 * r > d THEN {q + 1}
      ELSE {q, q + 1}

\* Mutant of ZeroRecord: the failure record keeps the base win rate.
ZeroRecordWithBaseWinRate ==
  [entry_price |-> 0, stop_loss |-> 0, take_profit |-> 0,
   win_rate |-> BASE_WIN_RATE, risk_percentage |-> 0]

ZeroRecord ==
  [entry_price |-> 0, stop_loss |-> 0, take_profit |-> 0, win_rate |-> 0,
   risk_percentage |-> 0]

\* Number of entries of the list that are among the tags.
CountIn(signals, tags) ==
  Cardinality({i \in 1..Len(signals) : signals[i] \in tags})

\* The try block of _calculate_risk_metrics raises: a KeyError on a missing
\* key, or a TypeError on None * float when the price is present and None.
risk_metrics_raises(data, technical, price) ==
  \/ "trend" \notin DOMAIN price
  \/ "volatility" \notin DOMAIN price
  \/ "signals" \notin DOMAIN technical
  \/ "strength" \notin DOMAIN technical
  \/ Get(data, "price", Some(0)) = None

\* Mutant of entry_price_x100: the two trend branches are swapped.
entry_price_swapped(current_price, trend) ==
  IF trend = "uptrend" THEN current_price * 101
  ELSE IF trend = "downtrend" THEN current_price * 99
  ELSE current_price * 100

\* entry_price before rounding, in 1/100 of a hundredth.
entry_price_x100(current_price, trend) ==
  IF trend = "uptrend" THEN current_price * 99
  ELSE IF trend = "downtrend" THEN current_price * 101
  ELSE current_price * 100

\* Mutant of stop_loss_pct: the stop is 3 percent at every volatility.
stop_loss_pct_flat(volatility) == 3

\* stop_loss_pct, in percent.
stop_loss_pct(volatility) ==
  IF volatility = "high" THEN 5
  ELSE IF volatility = "medium" THEN 3
  ELSE 2

\* Mutant of take_profit_pct: low volatility takes the target of medium.
take_profit_pct_low_as_medium(volatility) ==
  IF volatility = "high" THEN 15 ELSE 9

\* take_profit_pct, in percent.
take_profit_pct(volatility) ==
  IF volatility = "high" THEN 15
  ELSE IF volatility = "medium" THEN 9
  ELSE 6

\* Mutant of win_rate: the cap is applied before the strength adjustment.
win_rate_capped_early(technical) ==
  LET after_signals ==
        BASE_WIN_RATE
          + SIGNAL_BONUS * CountIn(technical["signals"],
                                   {"oversold", "bullish_macd", "overbought",
                                    "bearish_macd"})
      capped == IF after_signals < WIN_RATE_CAP THEN after_signals
                ELSE WIN_RATE_CAP
  IN  IF technical["strength"] = "strong" THEN capped + STRONG_BONUS
      ELSE IF technical["strength"] = "moderate" THEN capped + MODERATE_BONUS
      ELSE capped

\* Mutant of win_rate: a counted tag adds twice the bonus.
win_rate_double_bonus(technical) ==
  BASE_WIN_RATE
    + 2 * SIGNAL_BONUS * CountIn(technical["signals"],
                                 {"oversold", "bullish_macd", "overbought",
                                  "bearish_macd"})

win_rate(technical) ==
  LET after_signals ==
        BASE_WIN_RATE
          + SIGNAL_BONUS * CountIn(technical["signals"],
                                   {"oversold", "bullish_macd"})
          + SIGNAL_BONUS * CountIn(technical["signals"],
                                   {"overbought", "bearish_macd"})
      base_win_rate ==
        IF technical["strength"] = "strong"
        THEN after_signals + STRONG_BONUS
        ELSE IF technical["strength"] = "moderate"
        THEN after_signals + MODERATE_BONUS
        ELSE after_signals
  IN  IF base_win_rate < WIN_RATE_CAP THEN base_win_rate ELSE WIN_RATE_CAP

\* The set of the records _calculate_risk_metrics may return (one record,
\* unless a money value is an exact decimal tie).
_calculate_risk_metrics(data, technical, price) ==
  IF risk_metrics_raises(data, technical, price) THEN {ZeroRecord}
  ELSE LET current_price == Val(Get(data, "price", Some(0)))
           entry == entry_price_x100(current_price, price["trend"])
           sl == stop_loss_pct(price["volatility"])
           tp == take_profit_pct(price["volatility"])
       IN  {[entry_price |-> e, stop_loss |-> s, take_profit |-> t,
             win_rate |-> win_rate(technical), risk_percentage |-> rp] :
              e \in round2(entry, 100),
              s \in round2(entry * (100 - sl), 10000),
              t \in round2(entry * (100 + tp), 10000),
              rp \in round2(sl * 100, 1)}

\* Mutant of bullish_signals: an uptrend adds no vote of its own.
bullish_signals_without_trend_vote(price, signals) ==
  Cardinality({i \in 1..Len(signals) :
                 StrIn("buy", signals[i]) \/ StrIn("bullish", signals[i])})

bullish_signals(price, signals) ==
  Cardinality({i \in 1..Len(signals) :
                 StrIn("buy", signals[i]) \/ StrIn("bullish", signals[i])})
    + (IF price["trend"] = "uptrend" THEN 1 ELSE 0)

bearish_signals(price, signals) ==
  Cardinality({i \in 1..Len(signals) :
                 StrIn("sell", signals[i]) \/ StrIn("bearish", signals[i])})
    + (IF price["trend"] = "downtrend" THEN 1 ELSE 0)

\* Mutant of _generate_recommendation: a tie of the votes counts as bullish
\* (>= for >).
generate_recommendation_tie_buys(technical, price, signals) ==
  IF "trend" \notin DOMAIN price THEN "Hold"
  ELSE IF "strength" \notin DOMAIN technical THEN "Hold"
  ELSE IF bullish_signals(price, signals) >= bearish_signals(price, signals)
  THEN IF technical["strength"] = "strong" THEN "Strong Buy" ELSE "Buy"
  ELSE IF technical["strength"] = "strong" THEN "Strong Sell" ELSE "Sell"

_generate_recommendation(technical, price, signals) ==
  IF "trend" \notin DOMAIN price THEN "Hold"
  ELSE LET b == bullish_signals(price, signals)
           s == bearish_signals(price, signals)
       IN  IF b = s THEN "Hold"
           ELSE IF "strength" \notin DOMAIN technical THEN "Hold"
           ELSE IF b > s
           THEN IF technical["strength"] = "strong" THEN "Strong Buy"
                ELSE "Buy"
           ELSE IF technical["strength"] = "strong" THEN "Strong Sell"
                ELSE "Sell"

\* The record of lines 45-61 raises AttributeError when 'macd' is present
\* and None: data.get('macd', {}) is then None, and None has no get.
quote_record_raises(data) == Get(data, "macd", Some(EmptyDict)) = None

\* TradeAnalyzer.analyze_quote from line 30 on: the set of the results it
\* may build from the analysis. `not analysis` (line 30) holds of an empty
\* dict only; the empty analysis of analyze_stock has four keys.
quote_of_analysis(symbol, analysis) ==
  LET data == analysis.data
      technical == analysis.technical_analysis
      price == analysis.price_analysis
      signals == analysis.signals
      recommendation == _generate_recommendation(technical, price, signals)
  IN  IF DOMAIN analysis = {} THEN {None}
      ELSE IF quote_record_raises(data) THEN {None}
      ELSE {Some(
        [symbol |-> symbol,
         price |-> Get(data, "price", None),
         change |-> Get(data, "change", None),
         volume |-> Get(data, "volume", None),
         rsi |-> Get(data, "rsi", None),
         macd |-> Get(Val(Get(data, "macd", Some(EmptyDict))), "macd", None),
         macd_signal |->
           Get(Val(Get(data, "macd", Some(EmptyDict))), "signal", None),
         trend |-> price["trend"],
         trend_strength |-> technical["strength"],
         entry_price |-> risk_metrics.entry_price,
         stop_loss |-> risk_metrics.stop_loss,
         take_profit |-> risk_metrics.take_profit,
         win_rate |-> risk_metrics.win_rate,
         risk_percentage |-> risk_metrics.risk_percentage,
         recommendation |-> recommendation]) :
        risk_metrics \in _calculate_risk_metrics(data, technical, price)}

\* TradeAnalyzer.analyze_quote on the scraper's two answers for the symbol:
\* the set of its possible results.
analyze_quote(symbol, stock_data, indicators) ==
  quote_of_analysis(symbol, analyze_stock(stock_data, indicators))

\* The lists of market movers hold at most this many symbols each
\* (web_scraper.py, gainers[:10] and losers[:10]).
TOP_MOVERS == 10

\* get_top_recommendations reads this many symbols of each list.
TOP_PER_LIST == 3

\* get_top_recommendations returns at most this many entries.
TOP_RECOMMENDATIONS == 6

\* Python's s[:n].
Take(s, n) == SubSeq(s, 1, IF Len(s) < n THEN Len(s) ELSE n)

\* WebScraper.get_market_movers on the two pages of movers: page is None
\* when a request fails (the first returns early, the second raises in the
\* parser and is caught), else the symbols of the rows of the two tables.
get_market_movers(page) ==
  IF page = None THEN [gainers |-> << >>, losers |-> << >>]
  ELSE [gainers |-> Take(Val(page).gainers, TOP_MOVERS),
        losers |-> Take(Val(page).losers, TOP_MOVERS)]

\* MarketData.get_market_overview; the news and the indices, which the
\* analyzer does not read, are left out. Every collaborator it calls
\* catches its own exceptions, so its handler is not reached.
get_market_overview(page) == [movers |-> get_market_movers(page)]

\* The loop over the symbols (lines 84-92 and 120-128), as the set of the
\* lists it may build: one entry per symbol whose analysis is not None.
\* market[symbol] is what the scraper answers for the symbol.
RECURSIVE analyze_symbols(_, _)
analyze_symbols(symbols, market) ==
  IF symbols = << >> THEN {<< >>}
  ELSE LET symbol == Head(symbols)
       IN  {(IF analysis # None
             THEN <<[symbol |-> symbol,
                     action |-> Val(analysis).recommendation,
                     win_rate |-> Val(analysis).win_rate,
                     risk |-> Val(analysis).risk_percentage]>>
             ELSE << >>) \o rest :
              analysis \in analyze_quote(symbol, market[symbol].stock_data,
                                         market[symbol].indicators),
              rest \in analyze_symbols(Tail(symbols), market)}

\* recommendations.sort(key=win_rate, reverse=True): the stable sort in
\* non-increasing win rate (entries of equal win rate keep their order).
RECURSIVE sort_by_win_rate(_)
sort_by_win_rate(recommendations) ==
  IF recommendations = << >> THEN << >>
  ELSE LET n == Len(recommendations)
           last == recommendations[n]
           sorted == sort_by_win_rate(SubSeq(recommendations, 1, n - 1))
           k == Cardinality({i \in 1..Len(sorted) :
                               sorted[i].win_rate >= last.win_rate})
       IN  SubSeq(sorted, 1, k) \o <<last>>
             \o SubSeq(sorted, k + 1, Len(sorted))

\* The symbols get_top_recommendations analyses (line 82).
top_symbols(movers) ==
  Take(movers.gainers, TOP_PER_LIST) \o Take(movers.losers, TOP_PER_LIST)

\* The set of the lists get_top_recommendations may return.
get_top_recommendations(page, market) ==
  LET movers == get_market_overview(page).movers
  IN  {Take(sort_by_win_rate(recommendations), TOP_RECOMMENDATIONS) :
         recommendations \in analyze_symbols(top_symbols(movers), market)}

\* Mutant of all_symbols: the losers come before the gainers.
all_symbols_losers_first(movers) == movers.losers \o movers.gainers

\* The symbols analyze_all_quotes analyses (line 118).
all_symbols(movers) == movers.gainers \o movers.losers

\* The set of the lists analyze_all_quotes may return.
analyze_all_quotes(page, market) ==
  analyze_symbols(all_symbols(get_market_overview(page).movers), market)

---------------------------------------------------------------------------
(* The indicators: src/src/indicators/rsi.py and macd.py *)

\* A float that an indicator computes from prices is the exact rational
\* <<n, d>> with d > 0, in lowest terms; a price is a whole number.
RECURSIVE GCD(_, _)
GCD(a, b) == IF b = 0 THEN a ELSE GCD(b, a % b)

Abs(x) == IF x < 0 THEN -x ELSE x

\* n / d for d # 0.
Rat(n, d) ==
  LET g == GCD(Abs(n), Abs(d))
      s == IF d < 0 THEN -1 ELSE 1
  IN  <<(s * n) \div g, (s * d) \div g>>

RatInt(n) == <<n, 1>>

RatAdd(a, b) == Rat(a[1] * b[2] + b[1] * a[2], a[2] * b[2])

RatSub(a, b) == Rat(a[1] * b[2] - b[1] * a[2], a[2] * b[2])

RatMul(a, b) == Rat(a[1] * b[1], a[2] * b[2])

\* a / b for b # 0.
RatDiv(a, b) == Rat(a[1] * b[2], a[2] * b[1])

RECURSIVE RatSum(_)
RatSum(values) ==
  IF values = << >> THEN RatInt(0)
  ELSE RatAdd(Head(values), RatSum(Tail(values)))

\* np.mean of a non-empty array.
RatMean(values) == RatDiv(RatSum(values), RatInt(Len(values)))

\* What a caller passes as prices: a list, or None.
PriceList(items) == [kind |-> "list", items |-> items]

NoPrices == [kind |-> "None", items |-> << >>]

\* np.diff
rsi_changes(prices) ==
  [i \in 1..(Len(prices) - 1) |-> prices[i + 1] - prices[i]]

\* np.where(changes > 0, changes, 0)
rsi_gains(changes) ==
  [i \in 1..Len(changes) |-> IF changes[i] > 0 THEN changes[i] ELSE 0]

\* np.where(changes < 0, -changes, 0)
rsi_losses(changes) ==
  [i \in 1..Len(changes) |-> IF changes[i] < 0 THEN -changes[i] ELSE 0]

\* The loop of _calculate_average from the value at index i on.
RECURSIVE rsi_smooth(_, _, _, _)
rsi_smooth(avg, values, i, period) ==
  IF i > Len(values) THEN avg
  ELSE rsi_smooth(RatDiv(RatAdd(RatMul(avg, RatInt(period - 1)),
                                RatInt(values[i])),
                         RatInt(period)),
                  values, i + 1, period)

\* RSIIndicator._calculate_average
rsi_calculate_average(values, period) ==
  IF Len(values) < period THEN RatInt(0)
  ELSE rsi_smooth(RatMean([i \in 1..period |-> RatInt(values[i])]),
                  values, period + 1, period)

\* Mutant of rsi_too_few_changes: the second length check is missing.
rsi_too_few_changes_unchecked(changes, period) == FALSE

\* Line 39 of rsi.py.
rsi_too_few_changes(changes, period) == Len(changes) < period

\* RSIIndicator.calculate for an indicator of the given period.
rsi_calculate(prices, period) ==
  IF prices.kind # "list" \/ prices.items = << >> THEN None
  ELSE IF Len(prices.items) < period THEN None
  ELSE LET changes == rsi_changes(prices.items)
           avg_gain == rsi_calculate_average(rsi_gains(changes), period)
           avg_loss == rsi_calculate_average(rsi_losses(changes), period)
       IN  IF rsi_too_few_changes(changes, period) THEN None
           ELSE IF avg_loss = RatInt(0) THEN Some(RatInt(100))
           ELSE LET rs == RatDiv(avg_gain, avg_loss)
                IN  Some(RatSub(RatInt(100),
                                RatDiv(RatInt(100), RatAdd(RatInt(1), rs))))

\* The thresholds of RSIIndicator.get_signal, in hundredths.
RSI_SIGNAL_OVERBOUGHT == 7000

RSI_SIGNAL_OVERSOLD == 3000

\* Mutant of rsi_get_signal: the thresholds are inclusive.
rsi_get_signal_inclusive(rsi) ==
  IF rsi = None THEN "neutral"
  ELSE IF Val(rsi) >= RSI_SIGNAL_OVERBOUGHT THEN "overbought"
  ELSE IF Val(rsi) <= RSI_SIGNAL_OVERSOLD THEN "oversold"
  ELSE "neutral"

\* RSIIndicator.get_signal on a score in hundredths, or None.
rsi_get_signal(rsi) ==
  IF rsi = None THEN "neutral"
  ELSE IF Val(rsi) > RSI_SIGNAL_OVERBOUGHT THEN "overbought"
  ELSE IF Val(rsi) < RSI_SIGNAL_OVERSOLD THEN "oversold"
  ELSE "neutral"

\* The loop of _calculate_ema_array: the array ema, filled up to index
\* i - 1, is filled to its end. The multiplier is 2 / (period + 1).
RECURSIVE macd_ema_fill(_, _, _, _)
macd_ema_fill(ema, data, i, period) ==
  IF i > Len(data) THEN ema
  ELSE LET multiplier == Rat(2, period + 1)
           value == RatAdd(RatMul(data[i], multiplier),
                           RatMul(ema[i - 1],
                                  RatSub(RatInt(1), multiplier)))
       IN  macd_ema_fill(Append(ema, value), data, i + 1, period)

\* MACDIndicator._calculate_ema_array on an array of rationals, for a
\* period of at least 1: None, or the array of the same length.
macd_calculate_ema_array(data, period) ==
  IF Len(data) < period THEN None
  ELSE LET sma == RatMean(SubSeq(data, 1, period))
       IN  Some(macd_ema_fill([i \in 1..period |-> sma], data, period + 1,
                              period))

NoTriple == <<None, None, None>>

\* Mutant of macd_histogram: the difference is taken the other way round.
macd_histogram_reversed(line, signal) == RatSub(signal, line)

\* Line 42 of macd.py.
macd_histogram(line, signal) == RatSub(line, signal)

\* MACDIndicator.calculate for the periods <<fast, slow, signal>>.
macd_calculate(prices, periods) ==
  IF prices.kind # "list" \/ Len(prices.items) < periods[2] + periods[3]
  THEN NoTriple
  ELSE LET prices_array ==
             [i \in 1..Len(prices.items) |-> RatInt(prices.items[i])]
           fast_ema == macd_calculate_ema_array(prices_array, periods[1])
           slow_ema == macd_calculate_ema_array(prices_array, periods[2])
       IN  IF fast_ema = None \/ slow_ema = None THEN NoTriple
           ELSE LET macd_line ==
                      [i \in 1..Len(prices_array) |->
                         RatSub(Val(fast_ema)[i], Val(slow_ema)[i])]
                    signal_line ==
                      macd_calculate_ema_array(macd_line, periods[3])
                    n == Len(macd_line)
                IN  IF signal_line = None THEN NoTriple
                    ELSE <<Some(macd_line[n]), Some(Val(signal_line)[n]),
                           Some(macd_histogram(macd_line[n],
                                               Val(signal_line)[n]))>>

\* Mutant of macd_get_signal: the weak labels are tested before the strong.
macd_get_signal_weak_first(macd, signal, hist) ==
  IF macd = None \/ signal = None \/ hist = None THEN "neutral"
  ELSE IF Val(macd) > Val(signal) /\ Val(hist) > 0 THEN "buy"
  ELSE IF Val(macd) < Val(signal) /\ Val(hist) < 0 THEN "sell"
  ELSE IF Val(macd) > Val(signal) /\ Val(hist) > 0 /\ Val(macd) > 0
  THEN "strong_buy"
  ELSE IF Val(macd) < Val(signal) /\ Val(hist) < 0 /\ Val(macd) < 0
  THEN "strong_sell"
  ELSE "neutral"

\* MACDIndicator.get_signal on three values in hundredths, or None.
macd_get_signal(macd, signal, hist) ==
  IF macd = None \/ signal = None \/ hist = None THEN "neutral"
  ELSE IF Val(macd) > Val(signal) /\ Val(hist) > 0 /\ Val(macd) > 0
  THEN "strong_buy"
  ELSE IF Val(macd) < Val(signal) /\ Val(hist) < 0 /\ Val(macd) < 0
  THEN "strong_sell"
  ELSE IF Val(macd) > Val(signal) /\ Val(hist) > 0 THEN "buy"
  ELSE IF Val(macd) < Val(signal) /\ Val(hist) < 0 THEN "sell"
  ELSE "neutral"

---------------------------------------------------------------------------
(* The volume analyzer: src/src/indicators/volume.py *)

\* The default periods and the z-score threshold of the analyzer.
VOLUME_SMA_PERIOD == 20

VOLUME_CORRELATION_PERIOD == 20

VOLUME_TREND_PERIOD == 10

UNUSUAL_VOLUME_PERIOD == 20

UNUSUAL_VOLUME_THRESHOLD == 2

\* The slice s[-n:] of a list with at least n items.
LastOf(s, n) == [i \in 1..n |-> s[Len(s) - n + i]]

RECURSIVE SumOf(_)
SumOf(s) == IF s = << >> THEN 0 ELSE Head(s) + SumOf(Tail(s))

\* The sum of the products a[i] * b[i] of two lists of one length.
RECURSIVE DotOf(_, _)
DotOf(a, b) ==
  IF a = << >> THEN 0 ELSE Head(a) * Head(b) + DotOf(Tail(a), Tail(b))

Sign(x) == IF x > 0 THEN 1 ELSE IF x < 0 THEN -1 ELSE 0

\* VolumeAnalyzer._calculate_volume_sma
_calculate_volume_sma(volumes) ==
  IF Len(volumes) < VOLUME_SMA_PERIOD THEN RatInt(0)
  ELSE Rat(SumOf(LastOf(volumes, VOLUME_SMA_PERIOD)), VOLUME_SMA_PERIOD)

\* A correlation coefficient r is held as its sign and its square, which
\* determine it: r is a square root and has no exact quotient.
ZeroCorrelation == [sign |-> 0, square |-> RatInt(0)]

\* np.corrcoef(a, b)[0, 1] of two lists of one length n: with
\* c = n*sum(a*b) - sum(a)*sum(b) and the like for va and vb, r is
\* c / sqrt(va * vb), and nan, here None, when a or b has no variance.
corrcoef(a, b) ==
  LET n  == Len(a)
      c  == n * DotOf(a, b) - SumOf(a) * SumOf(b)
      va == n * DotOf(a, a) - SumOf(a) * SumOf(a)
      vb == n * DotOf(b, b) - SumOf(b) * SumOf(b)
  IN  IF va = 0 \/ vb = 0 THEN None
      ELSE Some([sign |-> Sign(c), square |-> RatMul(Rat(c, va), Rat(c, vb))])

\* VolumeAnalyzer._calculate_price_volume_correlation
_calculate_price_volume_correlation(prices, volumes) ==
  IF Len(prices) < VOLUME_CORRELATION_PERIOD
       \/ Len(volumes) < VOLUME_CORRELATION_PERIOD
  THEN ZeroCorrelation
  ELSE LET price_changes ==
             rsi_changes(LastOf(prices, VOLUME_CORRELATION_PERIOD))
           volume_changes ==
             rsi_changes(LastOf(volumes, VOLUME_CORRELATION_PERIOD))
           correlation == corrcoef(price_changes, volume_changes)
       IN  IF Len(price_changes) # Len(volume_changes) THEN ZeroCorrelation
           ELSE IF correlation = None THEN ZeroCorrelation
           ELSE Val(correlation)

\* The sign of np.polyfit(range(n), recent, 1)[0], the least-squares
\* slope: the sign of n*sum(x*y) - sum(x)*sum(y) for x = 0..n-1.
polyfit_slope_sign(recent) ==
  LET n == Len(recent)
      x == [i \in 1..n |-> i - 1]
  IN  Sign(n * DotOf(x, recent) - SumOf(x) * SumOf(recent))

\* VolumeAnalyzer._analyze_volume_trend, as the set of its possible
\* results: where the exact slope is zero the fitted float is zero or a
\* rounding residue of either sign.
_analyze_volume_trend(volumes) ==
  IF Len(volumes) < VOLUME_TREND_PERIOD THEN {"neutral"}
  ELSE LET volume_trend ==
             polyfit_slope_sign(LastOf(volumes, VOLUME_TREND_PERIOD))
       IN  IF volume_trend > 0 THEN {"increasing"}
           ELSE IF volume_trend < 0 THEN {"decreasing"}
           ELSE {"increasing", "decreasing", "neutral"}

\* VolumeAnalyzer._detect_unusual_volume, as the set of its possible
\* results. With s the sum and q the sum of squares of the n recent
\* volumes, abs(z_score) > threshold is
\* (n*current - s)^2 > threshold^2 * (n*q - s^2); where the two sides are
\* equal the float comparison goes either way.
_detect_unusual_volume(volumes) ==
  IF Len(volumes) < UNUSUAL_VOLUME_PERIOD THEN {FALSE}
  ELSE LET recent_volumes == LastOf(volumes, UNUSUAL_VOLUME_PERIOD)
           n == Len(recent_volumes)
           s == SumOf(recent_volumes)
           v == n * DotOf(recent_volumes, recent_volumes) - s * s
           current_volume == volumes[Len(volumes)]
           z == (n * current_volume - s) * (n * current_volume - s)
           t == UNUSUAL_VOLUME_THRESHOLD * UNUSUAL_VOLUME_THRESHOLD * v
       IN  IF v = 0 THEN {FALSE}
           ELSE IF z = t THEN {TRUE, FALSE}
           ELSE {z > t}

\* Mutant of _generate_volume_signal: the anomaly flag is tested first.
generate_volume_signal_unusual_first(current_volume, avg_volume, volume_trend, unusual_volume) ==
  IF unusual_volume THEN "unusual_volume"
  ELSE IF current_volume * avg_volume[2] > 2 * avg_volume[1]
            /\ volume_trend = "increasing" THEN "strong_volume"
  ELSE IF 2 * current_volume * avg_volume[2] < avg_volume[1]
            /\ volume_trend = "decreasing" THEN "weak_volume"
  ELSE "normal_volume"

\* VolumeAnalyzer._generate_volume_signal; avg_volume is a rational.
_generate_volume_signal(current_volume, avg_volume, volume_trend, unusual_volume) ==
  IF current_volume * avg_volume[2] > 2 * avg_volume[1]
       /\ volume_trend = "increasing" THEN "strong_volume"
  ELSE IF 2 * current_volume * avg_volume[2] < avg_volume[1]
            /\ volume_trend = "decreasing" THEN "weak_volume"
  ELSE IF unusual_volume THEN "unusual_volume"
  ELSE "normal_volume"

\* VolumeAnalyzer._get_empty_result
_get_empty_result ==
  [average_volume |-> RatInt(0),
   volume_trend |-> "neutral",
   price_volume_correlation |-> ZeroCorrelation,
   unusual_volume |-> FALSE,
   volume_signal |-> "normal_volume"]

\* Mutant of volume_lengths_differ: lists of different lengths pass, an
\* empty volume list apart.
volume_lengths_unchecked(prices, volumes) == volumes = << >>

\* The last test of line 18 of volume.py.
volume_lengths_differ(prices, volumes) == Len(prices) # Len(volumes)

\* VolumeAnalyzer.analyze_volume, as the set of its possible results;
\* prices and volumes are lists or None as PriceList and NoPrices give
\* them.
analyze_volume(prices, volumes) ==
  IF prices.kind # "list" \/ volumes.kind # "list"
  THEN {_get_empty_result}
  ELSE IF volume_lengths_differ(prices.items, volumes.items)
  THEN {_get_empty_result}
  ELSE IF Len(prices.items) < 2 THEN {_get_empty_result}
  ELSE LET volume_sma == _calculate_volume_sma(volumes.items)
           price_volume_correlation ==
             _calculate_price_volume_correlation(prices.items, volumes.items)
       IN  {[average_volume |-> volume_sma,
             volume_trend |-> volume_trend,
             price_volume_correlation |-> price_volume_correlation,
             unusual_volume |-> unusual_volume,
             volume_signal |->
               _generate_volume_signal(volumes.items[Len(volumes.items)],
                                       volume_sma, volume_trend,
                                       unusual_volume)] :
              volume_trend \in _analyze_volume_trend(volumes.items),
              unusual_volume \in _detect_unusual_volume(volumes.items)}

---------------------------------------------------------------------------

(* The indicators of the scraper: src/src/data/web_scraper.py *)

\* The periods written in WebScraper._calculate_macd.
SCRAPER_MACD_MIN_PRICES == 26

SCRAPER_MACD_FAST == 12

SCRAPER_MACD_SLOW == 26

SCRAPER_MACD_SIGNAL == 9

\* Python's sum() of a list of rationals, added up by halves.
RECURSIVE rat_sum(_)
rat_sum(values) ==
  IF values = << >> THEN RatInt(0)
  ELSE IF Len(values) = 1 THEN values[1]
  ELSE LET h == Len(values) \div 2
       IN  RatAdd(rat_sum(SubSeq(values, 1, h)),
                  rat_sum(SubSeq(values, h + 1, Len(values))))

\* The value of ema in WebScraper._calculate_ema after the price at index
\* i: the mean of the first period prices, then one step of the loop for
\* each later price. A denominator is positive: the test of ema[2] only
\* makes TLC compute ema before the step, which keeps its evaluation stack
\* short.
RECURSIVE scraper_ema_loop(_, _, _)
scraper_ema_loop(prices, i, period) ==
  IF i <= period THEN RatDiv(rat_sum(Take(prices, period)), RatInt(period))
  ELSE LET multiplier == Rat(2, period + 1)
           ema == scraper_ema_loop(prices, i - 1, period)
       IN  IF ema[2] > 0
           THEN RatAdd(RatMul(prices[i], multiplier),
                       RatMul(ema, RatSub(RatInt(1), multiplier)))
           ELSE ema

\* WebScraper._calculate_ema of a list of rationals.
_calculate_ema(prices, period) ==
  IF Len(prices) < period THEN None
  ELSE Some(scraper_ema_loop(prices, Len(prices), period))

\* round(x, 2) of a rational, in hundredths, as the set of its results.
round_rat(x) == round2(100 * x[1], x[2])

\* WebScraper._calculate_macd, as the set of its possible results; len()
\* of None raises and the handler returns the empty triple.
_calculate_macd(prices) ==
  IF prices.kind # "list" THEN {NoTriple}
  ELSE IF Len(prices.items) < SCRAPER_MACD_MIN_PRICES THEN {NoTriple}
  ELSE LET floats == [i \in 1..Len(prices.items) |-> RatInt(prices.items[i])]
           ema12 == _calculate_ema(floats, SCRAPER_MACD_FAST)
           ema26 == _calculate_ema(floats, SCRAPER_MACD_SLOW)
       IN  IF ema12 = None \/ ema26 = None THEN {NoTriple}
           ELSE LET macd_line == RatSub(Val(ema12), Val(ema26))
                    signal_line ==
                      _calculate_ema(<<macd_line>>, SCRAPER_MACD_SIGNAL)
                IN  IF signal_line = None THEN {NoTriple}
                    ELSE LET histogram == RatSub(macd_line, Val(signal_line))
                         IN  {<<Some(m), Some(s), Some(h)>> :
                                m \in round_rat(macd_line),
                                s \in round_rat(Val(signal_line)),
                                h \in round_rat(histogram)}

---------------------------------------------------------------------------

(* The API key manager: src/src/data/api_key_manager.py, and the client *)
(* that uses it: src/src/data/alphavantage.py *)

\* The limits each key is given, and the periods of the manager in seconds:
\* timedelta(minutes=1), timedelta(days=1) and time.sleep(60).
DAILY_LIMIT == 25

MINUTE_LIMIT == 5

MINUTE == 60

DAY == 86400

SLEEP_SECONDS == 60

\* The pool of _initialize_keys.
PoolKeys == <<"DEMO_KEY1", "DEMO_KEY2", "DEMO_KEY3", "DEMO_KEY4", "DEMO_KEY5">>

\* The usage dict of a key that was never used; the key 'minute_count' is
\* missing until the first use, which is minute_count = None.
FreshUsage ==
  [count |-> 0, last_used |-> None, daily_limit |-> DAILY_LIMIT,
   minute_limit |-> MINUTE_LIMIT, minute_count |-> None]

Range(s) == {s[i] : i \in 1..Len(s)}

\* APIKeyManager.__init__ at the time now.
APIKeyManager(now) ==
  [keys |-> PoolKeys,
   key_usage |-> [k \in Range(PoolKeys) |-> FreshUsage],
   last_key_rotation |-> now]

\* The key manager of AlphaVantageAPI(initial_api_key) constructed at the
\* time now; initial_api_key is None or Some(key).
AlphaVantageAPI(initial_api_key, now) ==
  LET manager == APIKeyManager(now)
  IN  IF initial_api_key = None THEN manager
      ELSE [manager EXCEPT
              !.keys = Append(@, Val(initial_api_key)),
              !.key_usage = [k \in DOMAIN @ \cup {Val(initial_api_key)} |->
                               FreshUsage]]

\* APIKeyManager._check_daily_reset
_check_daily_reset(manager, now) ==
  IF now - manager.last_key_rotation >= DAY
  THEN [manager EXCEPT
          !.key_usage = [k \in DOMAIN @ |-> [@[k] EXCEPT !.count = 0]],
          !.last_key_rotation = now]
  ELSE manager

\* usage.get('minute_count', 0)
minute_count_of(usage) ==
  IF usage.minute_count = None THEN 0 ELSE Val(usage.minute_count)

\* Mutant of key_unavailable: only the daily limit is tested.
key_unavailable_daily_only(usage, now) ==
  usage.count >= usage.daily_limit

\* The test of lines 92-99: the key is skipped.
key_unavailable(usage, now) ==
  \/ usage.count >= usage.daily_limit
  \/ /\ usage.last_used # None
     /\ now - Val(usage.last_used) < MINUTE
     /\ minute_count_of(usage) >= usage.minute_limit

\* APIKeyManager._get_available_keys
_get_available_keys(manager, now) ==
  SelectSeq(manager.keys,
            LAMBDA k : ~key_unavailable(manager.key_usage[k], now))

\* The sort key of a key is (count, last_used or datetime.min): a key that
\* was never used comes before the used keys of its count.
less_used(a, b) ==
  \/ a.count < b.count
  \/ /\ a.count = b.count
     /\ \/ a.last_used = None /\ b.last_used # None
        \/ /\ a.last_used # None
           /\ b.last_used # None
           /\ Val(a.last_used) < Val(b.last_used)

\* APIKeyManager._get_least_used_key of a list that is not empty: min()
\* returns the first of the least elements.
_get_least_used_key(manager, available_keys) ==
  LET least(i) == \A j \in 1..Len(available_keys) :
                    ~less_used(manager.key_usage[available_keys[j]],
                               manager.key_usage[available_keys[i]])
      i == CHOOSE i \in 1..Len(available_keys) :
             least(i) /\ \A j \in 1..(i - 1) : ~least(j)
  IN  available_keys[i]

\* APIKeyManager._update_key_usage from line 135 on, count being written
\* already.
update_minute_count(usage, now) ==
  [usage EXCEPT
     !.minute_count =
       IF usage.last_used # None /\ now - Val(usage.last_used) < MINUTE
       THEN Some(minute_count_of(usage) + 1)
       ELSE Some(1),
     !.last_used = Some(now)]

\* The messages handed to report_error, as their characters.
RateLimitNote ==
  <<"O","u","r"," ","s","t","a","n","d","a","r","d"," ","A","P","I"," ","r",
    "a","t","e"," ","l","i","m","i","t"," ","i","s"," ","5"," ","c","a","l",
    "l","s"," ","p","e","r"," ","m","i","n","u","t","e",".">>

RateLimitShout ==
  <<"R","A","T","E"," ","L","I","M","I","T">>

OtherNote ==
  <<"I","n","v","a","l","i","d"," ","A","P","I"," ","c","a","l","l",".">>

\* str.lower() on the characters of the messages.
lower(s) ==
  [i \in 1..Len(s) |->
     CASE s[i] = "A" -> "a" [] s[i] = "E" -> "e" [] s[i] = "I" -> "i"
       [] s[i] = "L" -> "l" [] s[i] = "M" -> "m" [] s[i] = "O" -> "o"
       [] s[i] = "P" -> "p" [] s[i] = "R" -> "r" [] s[i] = "T" -> "t"
       [] OTHER -> s[i]]

\* Python's `needle in s` on characters.
contains(needle, s) ==
  \E i \in 1..(Len(s) - Len(needle) + 1) :
     SubSeq(s, i, i + Len(needle) - 1) = needle

\* The test of line 150.
is_rate_limit_error(error_message) ==
  contains(<<"r","a","t","e"," ","l","i","m","i","t">>, lower(error_message))

\* APIKeyManager.report_error
report_error(manager, key, error_message) ==
  IF is_rate_limit_error(error_message)
  THEN [manager EXCEPT
          !.key_usage[key].count = manager.key_usage[key].daily_limit]
  ELSE manager

---------------------------------------------------------------------------

(* Bounds and input sets *)

\* Longest arbitrary signal list handed to a direct call.
MaxSignals == 2

\* Longest run of one repeated tag handed to _calculate_risk_metrics.
MaxRepeat == 9

SeqsUpTo(S, n) == UNION {[1..k -> S] : k \in 0..n}

Opt(S) == {None} \cup {Some(v) : v \in S}

Symbols == {"AAPL"}

PriceValues == Opt({0, 50, 15000, 15001})

ChangeValues == Opt({-250, -100, 0, 100, 101, 250})

VolumeValues == Opt({1000000})

\* <<52w_low, 52w_high>> as _scrape_yahoo_finance delivers them: both
\* unknown, or both numbers.
RangeValues ==
  {<<None, None>>, <<Some(14000), Some(16000)>>}
    \cup {<<Some(l), Some(h)>> : l \in {0, 10000},
                                h \in {10000, 12500, 12600, 15000, 15100}}

\* The dict of WebScraper.get_stock_data (lines 63-71): every key present.
StockDicts ==
  {[k \in {"price", "change", "volume", "market_cap", "pe_ratio",
           "52w_high", "52w_low"} |->
      CASE k = "price" -> p
        [] k = "change" -> c
        [] k = "volume" -> v
        [] k = "52w_low" -> r[1]
        [] k = "52w_high" -> r[2]
        [] OTHER -> None] :
     p \in PriceValues, c \in ChangeValues, v \in VolumeValues,
     r \in RangeValues}

RsiValues == Opt({2500, 3000, 6500, 7000, 7500})

\* <<macd line, signal line>> of a computed MACD.
MacdValues == {<<150, 100>>, <<100, 100>>, <<100, 150>>}

\* The value of the key 'macd' (web_scraper.py lines 287-291): None when
\* the line is unknown, else the dict of the three numbers.
MacdDicts ==
  {None} \cup {Some([macd |-> Some(m[1]), signal |-> Some(m[2]),
                     hist |-> Some(m[1] - m[2])]) : m \in MacdValues}

\* The dict of WebScraper.get_technical_indicators (lines 285-293).
IndicatorDicts ==
  {[rsi |-> r, macd |-> m, sma |-> None] : r \in RsiValues, m \in MacdDicts}

\* What the scraper answers for one symbol: its quote and its indicators.
\* Without a quote the indicators are not asked for.
SourceAnswers ==
  {[symbol |-> y, stock_data |-> None, indicators |-> None] :
     y \in Symbols \cup {""}}
    \cup {[symbol |-> y, stock_data |-> Some(d), indicators |-> i] :
            y \in Symbols, d \in StockDicts, i \in Opt(IndicatorDicts)}

\* The dicts that hold key k bound to a value of S, or lack it.
Partial1(k, S) == {EmptyDict} \cup {k :> v : v \in S}

\* The dicts over two keys, each bound to a value of its set or left out.
Partial2(k1, S1, k2, S2) ==
  {d1 @@ d2 : d1 \in Partial1(k1, S1), d2 \in Partial1(k2, S2)}

Trends == {"uptrend", "downtrend", "sideways"}

Volatilities == {"high", "medium", "low"}

Strengths == {"weak", "moderate", "strong"}

\* Signal lists of a direct call of _calculate_risk_metrics: every short
\* list, and the long runs that take the win rate to its cap.
RiskSignalLists ==
  SeqsUpTo({"oversold", "bearish_macd", "trend_following_buy"}, MaxSignals)
    \cup {[i \in 1..k |-> t] : k \in 0..MaxRepeat,
                               t \in {"bullish_macd", "overbought"}}

RiskArgs ==
  {[data |-> d, technical |-> t, price |-> p] :
     d \in Partial1("price", Opt({1, 50, 100, 15000, 15001})),
     t \in Partial2("signals", RiskSignalLists, "strength", Strengths),
     p \in Partial2("trend", Trends, "volatility", Volatilities)}

RecommendationArgs ==
  {[technical |-> t, price |-> p, signals |-> s] :
     t \in Partial1("strength", Strengths),
     p \in Partial1("trend", Trends),
     s \in SeqsUpTo(Vocabulary, MaxSignals)}

TrendArgs == {[data |-> d] : d \in Partial1("change", ChangeValues)}

BoundValues == Opt({-10000, 0, 10000, 12500, 12600, 15000, 15100})

VolatilityArgs ==
  {[data |-> d] :
     d \in Partial2("52w_high", BoundValues, "52w_low", BoundValues)}

\* Longest list of gainers on the page of movers.
MaxGainers == 4

\* Longest list of losers on the page of movers: as many as
\* get_top_recommendations reads.
MaxLosers == TOP_PER_LIST

MoverSymbols == {"AAPL", "GOOGL", "MSFT"}

\* The dict of WebScraper.get_stock_data for a price, a change and a
\* 52-week range <<low, high>>.
StockDict(p, c, r) ==
  [k \in {"price", "change", "volume", "market_cap", "pe_ratio",
          "52w_high", "52w_low"} |->
     CASE k = "price" -> p
       [] k = "change" -> c
       [] k = "volume" -> Some(1000000)
       [] k = "52w_low" -> r[1]
       [] k = "52w_high" -> r[2]
       [] OTHER -> None]

\* What the scraper answers for each symbol of the movers, in two markets.
\* In the first, AAPL is analysed with a win rate of 55 (Buy), GOOGL with
\* 60 (Sell) and MSFT is not analysable (its 'macd' is None). In the
\* second, AAPL has no price (win rate 0), GOOGL has no quote at all (the
\* record of defaults, win rate 50) and MSFT has no indicators (50, Hold).
Markets ==
  {[y \in MoverSymbols |->
      CASE y = "AAPL" ->
             [stock_data |->
                Some(StockDict(Some(15000), Some(250),
                               <<Some(14000), Some(16000)>>)),
              indicators |->
                Some([rsi |-> Some(6500),
                      macd |-> Some([macd |-> Some(150), signal |-> Some(100),
                                     hist |-> Some(50)]),
                      sma |-> None])]
        [] y = "GOOGL" ->
             [stock_data |->
                Some(StockDict(Some(15000), Some(-250),
                               <<Some(10000), Some(15100)>>)),
              indicators |->
                Some([rsi |-> Some(7500),
                      macd |-> Some([macd |-> Some(100), signal |-> Some(150),
                                     hist |-> Some(-50)]),
                      sma |-> None])]
        [] OTHER ->
             [stock_data |->
                Some(StockDict(Some(15000), Some(0), <<None, None>>)),
              indicators |->
                Some([rsi |-> Some(6500), macd |-> None, sma |-> None])]],
   [y \in MoverSymbols |->
      CASE y = "AAPL" ->
             [stock_data |->
                Some(StockDict(None, Some(250), <<None, None>>)),
              indicators |-> None]
        [] y = "GOOGL" -> [stock_data |-> None, indicators |-> None]
        [] OTHER ->
             [stock_data |->
                Some(StockDict(Some(50), Some(0), <<None, None>>)),
              indicators |-> None]]}

\* The pages of movers and the market of a call of a listing operation.
MoverArgs ==
  {[page |-> p, market |-> m] :
     p \in {None}
            \cup {Some([gainers |-> g, losers |-> l]) :
                    g \in SeqsUpTo(MoverSymbols, MaxGainers),
                    l \in SeqsUpTo(MoverSymbols, MaxLosers)},
     m \in Markets}

\* Longest arbitrary price list handed to an indicator.
MaxPrices == 6

PriceLevels == {1, 2, 3}

\* The period of the RSI in src/src/core/config.py.
RSI_PERIOD == 14

\* Price lists around the window of the configured RSI period: rising,
\* falling, flat and alternating, of 13 to 16 samples.
LongPriceLists ==
  UNION {{[i \in 1..n |-> i], [i \in 1..n |-> 20 - i], [i \in 1..n |-> 10],
          [i \in 1..n |-> 10 + (i % 2)]} : n \in 13..16}

PriceInputs ==
  {NoPrices} \cup {PriceList(s) : s \in SeqsUpTo(PriceLevels, MaxPrices)}

RsiArgs ==
  {[prices |-> p, period |-> n] : p \in PriceInputs, n \in {1, 2, 3}}
    \cup {[prices |-> PriceList(s), period |-> RSI_PERIOD] :
            s \in LongPriceLists}

\* <<fast, slow, signal>> periods of a MACD: the fast period is the
\* shorter one.
MacdPeriods == {<<1, 2, 1>>, <<1, 2, 2>>, <<2, 3, 1>>, <<2, 3, 2>>}

MacdArgs == {[prices |-> p, periods |-> n] : p \in PriceInputs,
                                              n \in MacdPeriods}

\* Values of the MACD line, its signal line and the histogram handed to
\* get_signal, in hundredths.
MacdSignalArgs ==
  {[macd |-> m, signal |-> s, hist |-> h] :
     m \in Opt({-50, 0, 50}), s \in Opt({-50, 0, 50}),
     h \in Opt({-50, 0, 50})}

RsiScores == Opt({0, 2500, 2999, 3000, 3001, 5000, 6999, 7000, 7001, 10000})

RsiSignalArgs == {[rsi |-> r] : r \in RsiScores}

\* The dicts handed to _analyze_technical_indicators: the keys 'rsi' and
\* 'macd' bound or left out; the 'macd' dict may be empty.
TechnicalArgs ==
  {[data |-> d] :
     d \in Partial2("rsi", RsiScores, "macd",
                    MacdDicts \cup {Some(EmptyDict)})}

---------------------------------------------------------------------------
\* Longest arbitrary list handed to the volume analyzer.
MaxVolumes == 2

\* Lengths around the windows of 10 and 20 samples.
WindowLengths == {9, 10, 19, 20, 21}

\* Volume lists around the windows: flat, rising, falling, one spike at the
\* end, and a spike at the start of the last ten samples with a smaller one
\* at the end.
LongVolumeLists ==
  UNION {{[i \in 1..n |-> 5], [i \in 1..n |-> i], [i \in 1..n |-> n + 1 - i],
          [i \in 1..n |-> IF i = n THEN 30 ELSE 1],
          [i \in 1..n |-> IF i = n - 9 THEN 30 ELSE IF i = n THEN 20 ELSE 1]} :
         n \in WindowLengths}

\* Price lists of the same lengths: flat, rising and alternating.
WindowPriceLists ==
  UNION {{[i \in 1..n |-> 10], [i \in 1..n |-> i],
          [i \in 1..n |-> 10 + (i % 2)]} : n \in WindowLengths}

ShortLists == {NoPrices} \cup {PriceList(s) : s \in SeqsUpTo({1, 2}, MaxVolumes)}

\* Short and missing inputs in every combination, every pair of long lists
\* (of one length or of two), and short prices with long volumes.
VolumeArgs ==
  {[prices |-> p, volumes |-> v] : p \in ShortLists, v \in ShortLists}
    \cup {[prices |-> PriceList(p), volumes |-> PriceList(v)] :
            p \in WindowPriceLists, v \in LongVolumeLists}
    \cup {[prices |-> p, volumes |-> PriceList(v)] :
            p \in ShortLists, v \in LongVolumeLists}

VolumeSignalArgs ==
  {[current_volume |-> c, avg_volume |-> a, volume_trend |-> t,
    unusual_volume |-> u] :
     c \in {0, 1, 5, 10},
     a \in {RatInt(0), RatInt(2), Rat(5, 2), RatInt(5), RatInt(20)},
     t \in {"increasing", "decreasing", "neutral"},
     u \in BOOLEAN}

\* Price lists for the MACD of the scraper: the list of
\* test_calculate_technical_indicators, flat lists around 26 samples, and
\* lists whose averages stay short fractions (12 samples of 10, then 23,
\* then samples of 12).
ScraperPriceLists ==
  {<<100, 102, 98, 103, 97, 105>>}
    \cup {[i \in 1..n |-> 10] : n \in {25, 26, 27, 30}}
    \cup {[i \in 1..n |-> IF i <= 12 THEN 10 ELSE IF i = 13 THEN 23 ELSE 12] :
            n \in {25, 26, 27}}

ScraperMacdArgs ==
  {[prices |-> p] :
     p \in PriceInputs \cup {PriceList(s) : s \in ScraperPriceLists}}

ScraperEmaArgs ==
  {[prices |-> s, period |-> n] :
     s \in SeqsUpTo({RatInt(1), RatInt(2)}, 3), n \in {1, 2, 9}}

\* Clients that share one key manager.
NumClients == 2

Clients == 1..NumClients

\* Calls of get_api_key a client makes when the clients run concurrently.
MaxCalls == 1

\* Calls of get_api_key of the single client of the sequential histories.
MaxSequentialCalls == 7

\* Calls of get_quote_data of the single client of the quote histories.
MaxQuoteCalls == 1

\* The depth at which the interpreter ends the recursion of get_api_key
\* (RecursionError), and the one at which it ends that of get_quote_data.
RECURSION_LIMIT == 1

MaxRetries == 7

\* The clock moves in steps of TICK seconds, during the first HORIZON
\* seconds of a day, and once by a day.
TICK == 30

HORIZON == 90

\* The key the tests construct the client with.
InitialKeys == {None, Some("test_api_key")}

ErrorMessages == {RateLimitNote, RateLimitShout, OtherNote}

\* What the upstream service answers to the requests of one call of
\* get_quote_data: a rate-limit notice every time, or anything.
Upstreams == {"rate_limited", "any"}

Responses(upstream) ==
  IF upstream = "rate_limited" THEN {"note_rate_limit"}
  ELSE {"series", "empty", "error", "note_rate_limit", "note_other",
        "information"}

(* The state machine: one call of one operation on inputs drawn in Init *)

Init ==
  /\ pc = "call"
  /\ ret = None
  /\ locals = << >>
  /\ NoKeyManager
  /\ \/ op \in {"analyze_quote", "analyze_stock"} /\ args \in SourceAnswers
     \/ op = "_calculate_risk_metrics" /\ args \in RiskArgs
     \/ op = "_generate_recommendation" /\ args \in RecommendationArgs
     \/ op = "_determine_trend" /\ args \in TrendArgs
     \/ op = "_calculate_volatility" /\ args \in VolatilityArgs

Return(value) ==
  /\ pc = "call"
  /\ pc' = "done"
  /\ ret' = value
  /\ UNCHANGED <<op, args, locals>>
  /\ UNCHANGED key_vars

AnalyzeQuote ==
  /\ op = "analyze_quote"
  /\ \E result \in analyze_quote(args.symbol, args.stock_data,
                                 args.indicators) :
       Return(result)

AnalyzeStock ==
  /\ op = "analyze_stock"
  /\ Return(Some(analyze_stock(args.stock_data, args.indicators)))

CalculateRiskMetrics ==
  /\ op = "_calculate_risk_metrics"
  /\ \E record \in _calculate_risk_metrics(args.data, args.technical,
                                           args.price) :
       Return(Some(record))

GenerateRecommendation ==
  /\ op = "_generate_recommendation"
  /\ Return(Some(_generate_recommendation(args.technical, args.price,
                                          args.signals)))

DetermineTrend ==
  /\ op = "_determine_trend"
  /\ Return(Some(_determine_trend(args.data)))

CalculateVolatility ==
  /\ op = "_calculate_volatility"
  /\ Return(Some(_calculate_volatility(args.data)))

Next ==
  \/ AnalyzeQuote
  \/ AnalyzeStock
  \/ CalculateRiskMetrics
  \/ GenerateRecommendation
  \/ DetermineTrend
  \/ CalculateVolatility

Spec == Init /\ [][Next]_vars

---------------------------------------------------------------------------
(* The listing operations: one call on a page of movers drawn in InitMovers *)

InitMovers ==
  /\ pc = "call"
  /\ ret = None
  /\ locals = << >>
  /\ NoKeyManager
  /\ op \in {"get_top_recommendations", "analyze_all_quotes"}
  /\ args \in MoverArgs

GetTopRecommendations ==
  /\ op = "get_top_recommendations"
  /\ \E result \in get_top_recommendations(args.page, args.market) :
       Return(Some(result))

AnalyzeAllQuotes ==
  /\ op = "analyze_all_quotes"
  /\ \E result \in analyze_all_quotes(args.page, args.market) :
       Return(Some(result))

NextMovers ==
  \/ GetTopRecommendations
  \/ AnalyzeAllQuotes

SpecMovers == InitMovers /\ [][NextMovers]_vars

---------------------------------------------------------------------------
(* Several calls of analyze_quote at once, one per worker, step by step *)

\* Number of workers.
NumWorkers == 2

Workers == 1..NumWorkers

\* What a worker is asked to analyse: a symbol of one of the markets with
\* the scraper's answers for it, or a quote of 0.50 in an uptrend, whose
\* entry price of 0.495 is a rounding tie.
WorkerJobs ==
  {[symbol |-> y, stock_data |-> m[y].stock_data,
    indicators |-> m[y].indicators] : y \in MoverSymbols, m \in Markets}
    \cup {[symbol |-> "TSLA",
           stock_data |-> Some(StockDict(Some(50), Some(250), <<None, None>>)),
           indicators |-> None]}

\* The local variables of a call before its first step (unbound in Python).
NoLocals == [stock_data |-> None, data |-> None, analysis |-> EmptyDict]

\* Mutant of frame_of: the local variables are kept in one place for all
\* workers, as attributes of the shared MarketData object would be.
frame_shared(w) == 1

\* The frame that holds the local variables of worker w's call: its own.
\* TradeAnalyzer, MarketData and WebScraper assign their attributes in
\* their constructors only.
frame_of(w) == w

InitWorkers ==
  /\ op = "analyze_quote"
  /\ args \in [Workers -> WorkerJobs]
  /\ pc = [w \in Workers |-> "call"]
  /\ ret = [w \in Workers |-> None]
  /\ locals = [w \in Workers |-> NoLocals]
  /\ NoKeyManager

\* market_data.py line 22: stock_data = self.scraper.get_stock_data(symbol)
FetchQuote(w) ==
  /\ pc[w] = "call"
  /\ locals' = [locals EXCEPT ![frame_of(w)].stock_data = args[w].stock_data]
  /\ pc' = [pc EXCEPT ![w] = "quote"]
  /\ UNCHANGED <<op, args, ret>>
  /\ UNCHANGED key_vars

\* market_data.py lines 23-31: the indicators are merged into stock_data,
\* which get_stock_data returns to analyze_stock as its data.
FetchIndicators(w) ==
  /\ pc[w] = "quote"
  /\ locals' = [locals EXCEPT ![frame_of(w)].data =
                  get_stock_data(locals[frame_of(w)].stock_data,
                                 args[w].indicators)]
  /\ pc' = [pc EXCEPT ![w] = "data"]
  /\ UNCHANGED <<op, args, ret>>
  /\ UNCHANGED key_vars

\* market_data.py lines 89-112: analyze_stock returns the analysis.
AnalyzeData(w) ==
  /\ pc[w] = "data"
  /\ locals' = [locals EXCEPT ![frame_of(w)].analysis =
                  analyze_data(locals[frame_of(w)].data)]
  /\ pc' = [pc EXCEPT ![w] = "analysis"]
  /\ UNCHANGED <<op, args, ret>>
  /\ UNCHANGED key_vars

\* analyzer.py lines 30-65: analyze_quote returns its result.
BuildResult(w) ==
  /\ pc[w] = "analysis"
  /\ \E result \in quote_of_analysis(args[w].symbol,
                                     locals[frame_of(w)].analysis) :
       ret' = [ret EXCEPT ![w] = result]
  /\ pc' = [pc EXCEPT ![w] = "done"]
  /\ UNCHANGED <<op, args, locals>>
  /\ UNCHANGED key_vars

NextWorkers ==
  \E w \in Workers :
    \/ FetchQuote(w)
    \/ FetchIndicators(w)
    \/ AnalyzeData(w)
    \/ BuildResult(w)

SpecWorkers == InitWorkers /\ [][NextWorkers]_vars

---------------------------------------------------------------------------
(* The indicators and the classification of their values: one call *)

InitIndicators ==
  /\ pc = "call"
  /\ ret = None
  /\ locals = << >>
  /\ NoKeyManager
  /\ \/ op = "rsi_calculate" /\ args \in RsiArgs
     \/ op = "rsi_get_signal" /\ args \in RsiSignalArgs
     \/ op = "macd_calculate" /\ args \in MacdArgs
     \/ op = "macd_get_signal" /\ args \in MacdSignalArgs
     \/ op = "_analyze_technical_indicators" /\ args \in TechnicalArgs

RsiCalculate ==
  /\ op = "rsi_calculate"
  /\ Return(Some(rsi_calculate(args.prices, args.period)))

RsiGetSignal ==
  /\ op = "rsi_get_signal"
  /\ Return(Some(rsi_get_signal(args.rsi)))

MacdCalculate ==
  /\ op = "macd_calculate"
  /\ Return(Some(macd_calculate(args.prices, args.periods)))

MacdGetSignal ==
  /\ op = "macd_get_signal"
  /\ Return(Some(macd_get_signal(args.macd, args.signal, args.hist)))

AnalyzeTechnicalIndicators ==
  /\ op = "_analyze_technical_indicators"
  /\ Return(Some(_analyze_technical_indicators(args.data)))

NextIndicators ==
  \/ RsiCalculate
  \/ RsiGetSignal
  \/ MacdCalculate
  \/ MacdGetSignal
  \/ AnalyzeTechnicalIndicators

SpecIndicators == InitIndicators /\ [][NextIndicators]_vars

---------------------------------------------------------------------------
(* The volume analyzer and the indicators of the scraper: one call *)

InitSeries ==
  /\ pc = "call"
  /\ ret = None
  /\ locals = << >>
  /\ NoKeyManager
  /\ \/ op = "analyze_volume" /\ args \in VolumeArgs
     \/ op = "_generate_volume_signal" /\ args \in VolumeSignalArgs
     \/ op = "_calculate_macd" /\ args \in ScraperMacdArgs
     \/ op = "_calculate_ema" /\ args \in ScraperEmaArgs

AnalyzeVolume ==
  /\ op = "analyze_volume"
  /\ \E result \in analyze_volume(args.prices, args.volumes) :
       Return(Some(result))

GenerateVolumeSignal ==
  /\ op = "_generate_volume_signal"
  /\ Return(Some(_generate_volume_signal(args.current_volume,
                                         args.avg_volume, args.volume_trend,
                                         args.unusual_volume)))

CalculateMacd ==
  /\ op = "_calculate_macd"
  /\ \E triple \in _calculate_macd(args.prices) : Return(Some(triple))

CalculateEma ==
  /\ op = "_calculate_ema"
  /\ Return(Some(_calculate_ema(args.prices, args.period)))

NextSeries ==
  \/ AnalyzeVolume
  \/ GenerateVolumeSignal
  \/ CalculateMacd
  \/ CalculateEma

SpecSeries == InitSeries /\ [][NextSeries]_vars

---------------------------------------------------------------------------

(* The key manager and its clients, step by step. A client is idle or     *)
(* inside one call: op is the method it called, pc its position, locals   *)
(* its local variables and the depth of its recursion.                    *)

NoFrame ==
  [calls |-> 0, depth |-> 0, retries |-> 0, available |-> << >>,
   selected |-> None, selected_count |-> 0, count_read |-> 0,
   api_key |-> None, wake |-> 0]

NoArgs == [none |-> TRUE]

\* No key was handed out yet.
NothingIssued(manager) ==
  [first |-> None, fallbacks |-> 0,
   grants |-> [k \in DOMAIN manager.key_usage |-> << >>]]

IdleClients ==
  /\ clock = 0
  /\ op = [t \in Clients |-> "idle"]
  /\ args = [t \in Clients |-> NoArgs]
  /\ pc = [t \in Clients |-> "idle"]
  /\ ret = [t \in Clients |-> None]
  /\ locals = [t \in Clients |-> NoFrame]

\* An APIKeyManager of its own, constructed at the time 0.
InitKeys ==
  /\ key_manager = APIKeyManager(0)
  /\ issued = NothingIssued(key_manager)
  /\ IdleClients

\* The key manager of an AlphaVantageAPI constructed at the time 0.
InitQuotes ==
  /\ \E initial_api_key \in InitialKeys :
       key_manager = AlphaVantageAPI(initial_api_key, 0)
  /\ issued = NothingIssued(key_manager)
  /\ IdleClients

\* A client starts a call: the frame of the call is fresh.
StartCall(t, name, arguments, position, calls) ==
  /\ pc[t] = "idle"
  /\ op' = [op EXCEPT ![t] = name]
  /\ args' = [args EXCEPT ![t] = arguments]
  /\ pc' = [pc EXCEPT ![t] = position]
  /\ ret' = [ret EXCEPT ![t] = None]
  /\ locals' = [locals EXCEPT ![t] = [NoFrame EXCEPT !.calls = calls]]
  /\ UNCHANGED key_vars

CallGetApiKey(t, limit) ==
  /\ locals[t].calls < limit
  /\ StartCall(t, "get_api_key", NoArgs, "check_daily_reset",
               locals[t].calls + 1)

\* report_error for one of the keys, with one of the messages. A client
\* reports before its first call of get_api_key, which keeps the histories
\* few; the reports of one client still meet the calls of the others.
CallReportError(t) ==
  /\ locals[t].calls = 0
  /\ \E key \in Range(key_manager.keys), error_message \in ErrorMessages :
       StartCall(t, "report_error",
                 [key |-> key, error_message |-> error_message],
                 "report_error", 0)

CallGetQuoteData(t, limit) ==
  /\ locals[t].calls < limit
  /\ \E upstream \in Upstreams :
       StartCall(t, "get_quote_data", [upstream |-> upstream],
                 "check_daily_reset", locals[t].calls + 1)

\* A call returns: the client is idle again and its frame is gone.
Finish(t, value) ==
  /\ op' = [op EXCEPT ![t] = "idle"]
  /\ args' = [args EXCEPT ![t] = NoArgs]
  /\ pc' = [pc EXCEPT ![t] = "idle"]
  /\ ret' = [ret EXCEPT ![t] = value]
  /\ locals' = [locals EXCEPT ![t] = [NoFrame EXCEPT
                                        !.calls = locals[t].calls]]

ReportError(t) ==
  /\ pc[t] = "report_error"
  /\ key_manager' = report_error(key_manager, args[t].key,
                                 args[t].error_message)
  /\ Finish(t, None)
  /\ UNCHANGED <<clock, issued>>

\* get_api_key, line 46
CheckDailyReset(t) ==
  /\ pc[t] = "check_daily_reset"
  /\ key_manager' = _check_daily_reset(key_manager, clock)
  /\ pc' = [pc EXCEPT ![t] = "get_available_keys"]
  /\ UNCHANGED <<op, args, ret, locals, clock, issued>>

\* get_api_key, lines 49-51
GetAvailableKeys(t) ==
  LET available_keys == _get_available_keys(key_manager, clock)
  IN  /\ pc[t] = "get_available_keys"
      /\ locals' = [locals EXCEPT ![t].available = available_keys]
      /\ pc' = [pc EXCEPT ![t] = IF available_keys = << >> THEN "sleep"
                                 ELSE "get_least_used_key"]
      /\ UNCHANGED <<op, args, ret>>
      /\ UNCHANGED key_vars

\* get_api_key, line 54: time.sleep(60) begins.
Sleep(t) ==
  /\ pc[t] = "sleep"
  /\ locals' = [locals EXCEPT ![t].wake = clock + SLEEP_SECONDS]
  /\ pc' = [pc EXCEPT ![t] = "sleeping"]
  /\ UNCHANGED <<op, args, ret>>
  /\ UNCHANGED key_vars

\* get_api_key, lines 54-55: the sleep is over and get_api_key calls itself,
\* or the interpreter refuses the call and the handler of line 65 runs.
WakeUp(t) ==
  /\ pc[t] = "sleeping"
  /\ clock >= locals[t].wake
  /\ IF locals[t].depth < RECURSION_LIMIT
     THEN /\ locals' = [locals EXCEPT ![t].depth = @ + 1,
                                      ![t].available = << >>,
                                      ![t].wake = 0]
          /\ pc' = [pc EXCEPT ![t] = "check_daily_reset"]
     ELSE /\ locals' = [locals EXCEPT ![t].wake = 0]
          /\ pc' = [pc EXCEPT ![t] = "fallback"]
  /\ UNCHANGED <<op, args, ret>>
  /\ UNCHANGED key_vars

\* get_api_key, line 58
GetLeastUsedKey(t) ==
  LET selected_key == _get_least_used_key(key_manager, locals[t].available)
  IN  /\ pc[t] = "get_least_used_key"
      /\ locals' = [locals EXCEPT
                      ![t].selected = Some(selected_key),
                      ![t].selected_count =
                        key_manager.key_usage[selected_key].count]
      /\ pc' = [pc EXCEPT ![t] = "read_count"]
      /\ UNCHANGED <<op, args, ret>>
      /\ UNCHANGED key_vars

\* _update_key_usage, line 134: usage['count'] is read ...
ReadCount(t) ==
  /\ pc[t] = "read_count"
  /\ locals' = [locals EXCEPT
                  ![t].count_read =
                    key_manager.key_usage[Val(locals[t].selected)].count]
  /\ pc' = [pc EXCEPT ![t] = "write_usage"]
  /\ UNCHANGED <<op, args, ret>>
  /\ UNCHANGED key_vars

\* The caller of get_api_key receives the key: get_api_key returns it to
\* the client, get_quote_data goes on to its request.
HandOut(t, key) ==
  IF op[t] = "get_quote_data"
  THEN /\ locals' = [locals EXCEPT ![t] =
                       [NoFrame EXCEPT !.calls = locals[t].calls,
                                       !.retries = locals[t].retries,
                                       !.api_key = Some(key)]]
       /\ pc' = [pc EXCEPT ![t] = "request"]
       /\ UNCHANGED <<op, args, ret>>
  ELSE Finish(t, Some(key))

\* The times of the latest grants of a key, the newest last.
Latest(times) ==
  IF Len(times) > MINUTE_LIMIT + 1
  THEN SubSeq(times, Len(times) - MINUTE_LIMIT, Len(times))
  ELSE times

\* ... and written, lines 134-140; get_api_key returns the key, line 63.
WriteUsage(t) ==
  LET key == Val(locals[t].selected)
      usage == [key_manager.key_usage[key] EXCEPT
                  !.count = locals[t].count_read + 1]
  IN  /\ pc[t] = "write_usage"
      /\ key_manager' = [key_manager EXCEPT
                           !.key_usage[key] = update_minute_count(usage, clock)]
      /\ issued' = [issued EXCEPT
                      !.grants[key] = Latest(Append(@, clock))]
      /\ HandOut(t, key)
      /\ UNCHANGED clock

\* get_api_key, lines 65-67: the first key is returned as it is.
Fallback(t) ==
  /\ pc[t] = "fallback"
  /\ HandOut(t, key_manager.keys[1])
  /\ issued' = [issued EXCEPT !.fallbacks = 1]
  /\ UNCHANGED <<key_manager, clock>>

\* get_quote_data, lines 55-74: the request is sent with the key and the
\* response is handled. A notice is reported and the call is made again,
\* unless the interpreter refuses it and the handler of line 92 returns
\* None.
Request(t) ==
  /\ pc[t] = "request"
  /\ issued' = IF issued.first = None
               THEN [issued EXCEPT !.first = locals[t].api_key]
               ELSE issued
  /\ \E response \in Responses(args[t].upstream) :
       CASE response = "series" ->
              /\ Finish(t, Some("quote"))
              /\ UNCHANGED key_manager
         [] response \in {"empty", "error"} ->
              /\ Finish(t, None)
              /\ UNCHANGED key_manager
         [] OTHER ->
              /\ key_manager' =
                   report_error(key_manager, Val(locals[t].api_key),
                                IF response = "note_other" THEN OtherNote
                                ELSE RateLimitNote)
              /\ IF locals[t].retries < MaxRetries
                 THEN /\ locals' = [locals EXCEPT
                                      ![t].retries = @ + 1,
                                      ![t].api_key = None]
                      /\ pc' = [pc EXCEPT ![t] = "check_daily_reset"]
                      /\ UNCHANGED <<op, args, ret>>
                 ELSE Finish(t, None)
  /\ UNCHANGED clock

\* Time passes between the calls of the clients and while they sleep; the
\* steps of a call take no time.
Tick(clients) ==
  /\ \A t \in clients : pc[t] \in {"idle", "sleeping"}
  /\ \/ /\ clock % DAY < HORIZON
        /\ clock' = clock + TICK
     \/ /\ clock < DAY
        /\ clock' = clock + DAY
  /\ UNCHANGED <<op, args, pc, ret, locals, key_manager, issued>>

\* A step of get_api_key.
Step(t) ==
  \/ CheckDailyReset(t)
  \/ GetAvailableKeys(t)
  \/ Sleep(t)
  \/ WakeUp(t)
  \/ GetLeastUsedKey(t)
  \/ ReadCount(t)
  \/ WriteUsage(t)
  \/ Fallback(t)

\* Clients call get_api_key and report_error concurrently.
NextKeys ==
  \/ \E t \in Clients :
       \/ CallGetApiKey(t, MaxCalls)
       \/ CallReportError(t)
       \/ ReportError(t)
       \/ Step(t)
  \/ Tick(Clients)

SpecKeys == InitKeys /\ [][NextKeys]_vars

\* One client: the calls follow one another.
NextSequential ==
  \/ CallGetApiKey(1, MaxSequentialCalls)
  \/ CallReportError(1)
  \/ ReportError(1)
  \/ Step(1)
  \/ Tick({1})

SpecSequential == InitKeys /\ [][NextSequential]_vars

\* One client calls get_quote_data.
NextQuotes ==
  \/ CallGetQuoteData(1, MaxQuoteCalls)
  \/ Step(1)
  \/ Request(1)
  \/ Tick({1})

SpecQuotes == InitQuotes /\ [][NextQuotes]_vars

---------------------------------------------------------------------------

(* Claims *)

\* The snapshot MarketData.get_stock_data delivers for the call's symbol.
Snapshot == get_stock_data(args.stock_data, args.indicators)

Done(name) == op = name /\ pc = "done"

\* |x| <= y
Within(x, y) == -y <= x /\ x <= y

\* C1: whenever the data source yields a snapshot for the symbol,
\* analyze_quote returns a result and not None, also when optional or
\* scraped fields of the snapshot are unknown.
C1_SnapshotGivesResult ==
  (Done("analyze_quote") /\ Snapshot # None) => ret # None

\* C2: when the data source yields no snapshot for the symbol,
\* analyze_quote returns None and not a record filled with defaults.
C2_NoSnapshotGivesNone ==
  (Done("analyze_quote") /\ Snapshot = None) => ret = None

\* The vote counts of C3, with the tags of the vocabulary that contain
\* 'buy' or 'bullish', and 'sell' or 'bearish', written out.
BullishTags == {"bullish_macd", "strong_buy", "buy", "trend_following_buy"}

BearishTags == {"bearish_macd", "strong_sell", "sell", "trend_following_sell"}

Occurrences(signals, tags) ==
  Cardinality({i \in 1..Len(signals) : signals[i] \in tags})

BullishVotes(signals, trend) ==
  Occurrences(signals, BullishTags) + (IF trend = "uptrend" THEN 1 ELSE 0)

BearishVotes(signals, trend) ==
  Occurrences(signals, BearishTags) + (IF trend = "downtrend" THEN 1 ELSE 0)

VoteLabel(b, s, strength) ==
  IF b = s THEN "Hold"
  ELSE IF b > s THEN (IF strength = "strong" THEN "Strong Buy" ELSE "Buy")
  ELSE (IF strength = "strong" THEN "Strong Sell" ELSE "Sell")

\* C3: for every signal list, trend and strength, _generate_recommendation
\* returns the label fixed by the vote counts b and s: Hold exactly when
\* b = s, Strong Buy or Buy when b > s, Strong Sell or Sell when s > b, the
\* strong label exactly when the strength is strong.
C3_RecommendationByVotes ==
  (/\ Done("_generate_recommendation")
   /\ "trend" \in DOMAIN args.price
   /\ "strength" \in DOMAIN args.technical)
  => LET b == BullishVotes(args.signals, args.price["trend"])
         s == BearishVotes(args.signals, args.price["trend"])
     IN  /\ ret = Some(VoteLabel(b, s, args.technical["strength"]))
         /\ (Val(ret) = "Hold") <=> (b = s)

\* Witness of C3: a tie of one bullish and one bearish vote gave Hold.
C3_Witness ==
  /\ Done("_generate_recommendation")
  /\ "trend" \in DOMAIN args.price
  /\ "strength" \in DOMAIN args.technical
  /\ args.technical["strength"] = "strong"
  /\ args.price["trend"] = "downtrend"
  /\ args.signals = <<"strong_buy">>
  /\ ret = Some("Hold")

\* The win rate of C4 for n counted tags and the strength.
ClaimedWinRate(n, strength) ==
  LET sum == 50 + 5 * n + (IF strength = "strong" THEN 10
                           ELSE IF strength = "moderate" THEN 5 ELSE 0)
  IN  IF sum > 90 THEN 90 ELSE sum

CountedTags == {"oversold", "bullish_macd", "overbought", "bearish_macd"}

\* C4 as stated: for every analysis, win_rate = min(90, 50 + 5*n + a), n
\* counted over the merged signal set.
C4_WinRateOfEveryAnalysis ==
  (Done("analyze_quote") /\ ret # None)
  => Val(ret).win_rate =
       ClaimedWinRate(
         Occurrences(analyze_stock(args.stock_data, args.indicators).signals,
                     CountedTags),
         Val(ret).trend_strength)

\* The risk computation of the call fails: the price is present and None.
PriceIsNone(data) == "price" \in DOMAIN data /\ data["price"] = None

\* C4 as amended: for every analysis whose risk computation succeeds,
\* win_rate = min(90, 50 + 5*n + a), and it is 0 when the computation fails;
\* for every signal list handed to _calculate_risk_metrics the win rate is
\* that formula over the entries of the list and never exceeds 90.
C4_WinRateWhenRiskSucceeds ==
  /\ (Done("analyze_quote") /\ ret # None)
     => LET analysis == analyze_stock(args.stock_data, args.indicators)
        IN  Val(ret).win_rate =
              IF PriceIsNone(analysis.data) THEN 0
              ELSE ClaimedWinRate(Occurrences(analysis.signals, CountedTags),
                                  Val(ret).trend_strength)
  /\ (/\ Done("_calculate_risk_metrics")
      /\ {"signals", "strength"} \subseteq DOMAIN args.technical
      /\ {"trend", "volatility"} \subseteq DOMAIN args.price
      /\ ~PriceIsNone(args.data))
     => /\ Val(ret).win_rate =
             ClaimedWinRate(Occurrences(args.technical["signals"], CountedTags),
                            args.technical["strength"])
        /\ Val(ret).win_rate <= 90

\* Witness of C4: nine counted tags and a strong trend (105 before the cap)
\* gave a win rate of 90.
C4_Witness ==
  /\ Done("_calculate_risk_metrics")
  /\ {"signals", "strength"} \subseteq DOMAIN args.technical
  /\ {"trend", "volatility"} \subseteq DOMAIN args.price
  /\ ~PriceIsNone(args.data)
  /\ Occurrences(args.technical["signals"], CountedTags) = 9
  /\ args.technical["strength"] = "strong"
  /\ Val(ret).win_rate = 90

\* The risk computation of a direct call succeeds.
RiskSucceeds ==
  /\ {"signals", "strength"} \subseteq DOMAIN args.technical
  /\ {"trend", "volatility"} \subseteq DOMAIN args.price
  /\ ~PriceIsNone(args.data)

\* C5: when the risk computation succeeds, entry_price is price*0.99 for an
\* uptrend, price*1.01 for a downtrend and the price otherwise; stop_loss is
\* entry*(1 - sl) and take_profit is entry*(1 + tp) with (sl, tp) = (5, 15)
\* percent for high volatility, (3, 9) for medium and (2, 6) for low, each
\* money value being the nearest hundredth of the stated product;
\* risk_percentage is sl and one of 2, 3, 5.
C5_EntryStopTarget ==
  (Done("_calculate_risk_metrics") /\ RiskSucceeds)
  => LET p == IF "price" \in DOMAIN args.data THEN Val(args.data["price"])
              ELSE 0
         m == CASE args.price["trend"] = "uptrend" -> 99
                [] args.price["trend"] = "downtrend" -> 101
                [] OTHER -> 100
         sl == CASE args.price["volatility"] = "high" -> 5
                 [] args.price["volatility"] = "medium" -> 3
                 [] OTHER -> 2
         tp == CASE args.price["volatility"] = "high" -> 15
                 [] args.price["volatility"] = "medium" -> 9
                 [] OTHER -> 6
         r == Val(ret)
     IN  /\ Within(100 * r.entry_price - p * m, 50)
         /\ Within(10000 * r.stop_loss - p * m * (100 - sl), 5000)
         /\ Within(10000 * r.take_profit - p * m * (100 + tp), 5000)
         /\ r.risk_percentage = 100 * sl
         /\ r.risk_percentage \in {200, 300, 500}

\* Witness of C5: 150.01 in an uptrend of high volatility gave the entry
\* 148.51, the stop 141.08 and the target 170.79, at a risk of 5 percent.
C5_Witness ==
  /\ Done("_calculate_risk_metrics")
  /\ RiskSucceeds
  /\ args.data = ("price" :> Some(15001))
  /\ args.price["trend"] = "uptrend"
  /\ args.price["volatility"] = "high"
  /\ Val(ret).entry_price = 14851
  /\ Val(ret).stop_loss = 14108
  /\ Val(ret).take_profit = 17079
  /\ Val(ret).risk_percentage = 500

\* C6: _calculate_risk_metrics never raises; on any internal failure (a
\* missing trend, volatility, signals or strength key, a price that is
\* present and None) it returns the record whose five fields are all 0,
\* never a partially filled record.
C6_FailureGivesZeroRecord ==
  /\ Done("_calculate_risk_metrics")
     => /\ ret # None
        /\ DOMAIN Val(ret) = {"entry_price", "stop_loss", "take_profit",
                              "win_rate", "risk_percentage"}
        /\ ~RiskSucceeds
           => Val(ret) = [entry_price |-> 0, stop_loss |-> 0, take_profit |-> 0,
                          win_rate |-> 0, risk_percentage |-> 0]
        /\ RiskSucceeds => Val(ret).win_rate >= 50
  /\ (Done("analyze_quote") /\ ret # None /\ Snapshot # None
        /\ Val(Snapshot)["price"] = None /\ Val(Snapshot)["change"] # None)
     => /\ Val(ret).entry_price = 0
        /\ Val(ret).stop_loss = 0
        /\ Val(ret).take_profit = 0
        /\ Val(ret).win_rate = 0
        /\ Val(ret).risk_percentage = 0

\* Witness of C6: a call without the key 'trend' returned the zero record.
C6_Witness ==
  /\ Done("_calculate_risk_metrics")
  /\ "trend" \notin DOMAIN args.price
  /\ {"signals", "strength"} \subseteq DOMAIN args.technical
  /\ "volatility" \in DOMAIN args.price
  /\ Val(ret).win_rate = 0
  /\ Val(ret).risk_percentage = 0

\* The tags of C7 and C8, from the snapshot's values.
RsiTag(data) ==
  IF "rsi" \in DOMAIN data /\ data["rsi"] # None
  THEN IF Val(data["rsi"]) > 7000 THEN <<"overbought">>
       ELSE IF Val(data["rsi"]) < 3000 THEN <<"oversold">>
       ELSE << >>
  ELSE << >>

\* The snapshot holds a MACD line and a signal line.
HasMacd(data) ==
  /\ "macd" \in DOMAIN data
  /\ data["macd"] # None
  /\ Val(data["macd"]).macd # None
  /\ Val(data["macd"]).signal # None

MacdLine(data) == Val(Val(data["macd"]).macd)

SignalLine(data) == Val(Val(data["macd"]).signal)

MacdTag(data) ==
  IF HasMacd(data)
  THEN IF MacdLine(data) > SignalLine(data) THEN <<"bullish_macd">>
       ELSE IF MacdLine(data) < SignalLine(data) THEN <<"bearish_macd">>
       ELSE << >>
  ELSE << >>

TrendTag(trend) ==
  IF trend = "uptrend" THEN <<"trend_following_buy">>
  ELSE IF trend = "downtrend" THEN <<"trend_following_sell">>
  ELSE << >>

VolatilityTag(volatility) ==
  IF volatility = "high" THEN <<"high_volatility">> ELSE << >>

\* An analysis of a snapshot whose change is known (the trend is defined).
AnalysedSnapshot ==
  /\ Done("analyze_stock")
  /\ Snapshot # None
  /\ Val(Snapshot)["change"] # None

\* C7: for every snapshot the aggregated signal list is, in this order, the
\* RSI tag if the RSI classification is not neutral, the MACD tag if the
\* MACD classification is not neutral, the trend-following tag of the trend,
\* then high_volatility if the volatility is high; it holds no duplicate and
\* only tags of the closed vocabulary.
C7_SignalListInOrder ==
  AnalysedSnapshot
  => LET signals == Val(ret).signals
         price == Val(ret).price_analysis
     IN  /\ signals = RsiTag(Val(Snapshot)) \o MacdTag(Val(Snapshot))
                        \o TrendTag(price.trend)
                        \o VolatilityTag(price.volatility)
         /\ \A i, j \in 1..Len(signals) : signals[i] = signals[j] => i = j
         /\ \A i \in 1..Len(signals) : signals[i] \in Vocabulary

\* C8: a MACD tag enters the signal set only when the MACD classification
\* is not neutral: line > signal gives the bullish tag, line < signal the
\* bearish tag, and line = signal gives neither.
C8_MacdTagOnlyWhenNotNeutral ==
  (AnalysedSnapshot /\ HasMacd(Val(Snapshot)))
  => LET tags == {Val(ret).signals[i] : i \in 1..Len(Val(ret).signals)}
         line == MacdLine(Val(Snapshot))
         signal == SignalLine(Val(Snapshot))
     IN  /\ line > signal
             => "bullish_macd" \in tags /\ "bearish_macd" \notin tags
         /\ line < signal
             => "bearish_macd" \in tags /\ "bullish_macd" \notin tags
         /\ line = signal
             => "bullish_macd" \notin tags /\ "bearish_macd" \notin tags

\* The trend of C9 for a change in hundredths of a percent.
ClaimedTrend(change) ==
  IF change > 100 THEN "uptrend"
  ELSE IF change < -100 THEN "downtrend"
  ELSE "sideways"

\* C9: for every percent change the trend classifier returns uptrend iff
\* change > 1, downtrend iff change < -1 and sideways otherwise (1 and -1
\* are sideways); a snapshot with change = -2.5 is analysed as a downtrend
\* with an entry price of price*1.01 (to the nearest hundredth).
C9_TrendByChange ==
  /\ (Done("_determine_trend") /\ Get(args.data, "change", Some(0)) # None)
     => ret = Some(ClaimedTrend(Val(Get(args.data, "change", Some(0)))))
  /\ (/\ Done("analyze_quote")
      /\ ret # None
      /\ Snapshot # None
      /\ Val(Snapshot)["change"] # None)
     => /\ Val(ret).trend = ClaimedTrend(Val(Val(Snapshot)["change"]))
        /\ (Val(Snapshot)["change"] = Some(-250)
              /\ Val(Snapshot)["price"] # None)
           => /\ Val(ret).trend = "downtrend"
              /\ Within(100 * Val(ret).entry_price
                          - 101 * Val(Val(Snapshot)["price"]), 50)

\* Witness of C9: the boundary change of exactly 1 percent gave sideways.
C9_Witness ==
  /\ Done("_determine_trend")
  /\ args.data = ("change" :> Some(100))
  /\ ret = Some("sideways")

\* A 52-week bound of the call is present: its key is there, and its value
\* is neither None nor zero.
BoundPresent(data, k) ==
  k \in DOMAIN data /\ data[k] # None /\ Val(data[k]) # 0

\* The bounds of the call are present, high > low, and the spread
\* (high - low) / low * 100 exceeds pct.
SpreadAbove(data, pct) ==
  /\ BoundPresent(data, "52w_high")
  /\ BoundPresent(data, "52w_low")
  /\ Val(data["52w_high"]) > Val(data["52w_low"])
  /\ Val(data["52w_low"]) > 0
  /\ 100 * (Val(data["52w_high"]) - Val(data["52w_low"]))
       > pct * Val(data["52w_low"])

\* C10: for every pair of 52-week bounds the volatility classifier returns
\* high iff both bounds are present, high > low and the spread exceeds 50;
\* medium iff the spread exceeds 25 and not 50; low in every other case,
\* also for a missing or zero bound and for high <= low; it always returns
\* one of the three labels.
C10_VolatilityBySpread ==
  Done("_calculate_volatility")
  => /\ ret \in {Some("high"), Some("medium"), Some("low")}
     /\ (ret = Some("high")) <=> SpreadAbove(args.data, 50)
     /\ (ret = Some("medium"))
          <=> (SpreadAbove(args.data, 25) /\ ~SpreadAbove(args.data, 50))
     /\ (ret = Some("low")) <=> ~SpreadAbove(args.data, 25)

\* Witness of C10: a spread of exactly 50 percent (150 over 100) gave medium.
C10_Witness ==
  /\ Done("_calculate_volatility")
  /\ args.data = ("52w_high" :> Some(15000)) @@ ("52w_low" :> Some(10000))
  /\ ret = Some("medium")

\* The round-trip snapshot of C11: price 150, change 2.5, 52-week range
\* 140 to 160, RSI 65, MACD line 1.5 over signal line 1.0.
RoundTripSnapshot ==
  /\ Snapshot # None
  /\ {"rsi", "macd"} \subseteq DOMAIN Val(Snapshot)
  /\ Val(Snapshot)["price"] = Some(15000)
  /\ Val(Snapshot)["change"] = Some(250)
  /\ Val(Snapshot)["52w_high"] = Some(16000)
  /\ Val(Snapshot)["52w_low"] = Some(14000)
  /\ Val(Snapshot)["rsi"] = Some(6500)
  /\ HasMacd(Val(Snapshot))
  /\ MacdLine(Val(Snapshot)) = 150
  /\ SignalLine(Val(Snapshot)) = 100

\* C11: analysing the snapshot {price 150, change 2.5, 52w_high 160,
\* 52w_low 140, rsi 65, macd {macd 1.5, signal 1.0}} end to end yields the
\* trend uptrend, the volatility low, entry_price 148.5, stop_loss 145.53,
\* take_profit 157.41, risk_percentage 2.0 and a win_rate of at least 50.
C11_RoundTrip ==
  /\ (Done("analyze_stock") /\ RoundTripSnapshot)
     => /\ Val(ret).price_analysis.trend = "uptrend"
        /\ Val(ret).price_analysis.volatility = "low"
  /\ (Done("analyze_quote") /\ RoundTripSnapshot)
     => /\ ret # None
        /\ Val(ret).trend = "uptrend"
        /\ Val(ret).entry_price = 14850
        /\ Val(ret).stop_loss = 14553
        /\ Val(ret).take_profit = 15741
        /\ Val(ret).risk_percentage = 200
        /\ Val(ret).win_rate >= 50

\* Witness of C11: the round-trip snapshot was analysed end to end, with a
\* target of 157.41 and a win rate of 55.
C11_Witness ==
  /\ Done("analyze_quote")
  /\ RoundTripSnapshot
  /\ ret # None
  /\ Val(ret).take_profit = 15741
  /\ Val(ret).win_rate = 55

\* The snapshot of C12: an RSI above 70 and a MACD line below its signal.
OverboughtAndBearish ==
  /\ Snapshot # None
  /\ "rsi" \in DOMAIN Val(Snapshot)
  /\ Val(Snapshot)["rsi"] # None
  /\ Val(Val(Snapshot)["rsi"]) > 7000
  /\ HasMacd(Val(Snapshot))
  /\ MacdLine(Val(Snapshot)) < SignalLine(Val(Snapshot))

SellSide == {"Sell", "Strong Sell"}

\* C12: for every snapshot with rsi > 70 and MACD line < signal line, the
\* signal set contains both overbought and bearish_macd, and the
\* recommendation is Sell or Strong Sell unless the trend is an uptrend,
\* whose vote offsets the bearish count; with the trend sideways or
\* downtrend it is always a Sell-side label.
C12_OverboughtBearishSells ==
  /\ (Done("analyze_stock") /\ OverboughtAndBearish)
     => LET tags == {Val(ret).signals[i] : i \in 1..Len(Val(ret).signals)}
        IN  "overbought" \in tags /\ "bearish_macd" \in tags
  /\ (Done("analyze_quote") /\ OverboughtAndBearish)
     => /\ ret # None
        /\ Val(ret).trend \in {"sideways", "downtrend"}
             => Val(ret).recommendation \in SellSide
        /\ Val(ret).recommendation \in SellSide \/ Val(ret).trend = "uptrend"

\* The field k of the snapshot; an absent key reads as None.
SnapshotField(k) == Get(Val(Snapshot), k, None)

\* The entry k of the snapshot's 'macd' dict; None when there is no dict.
SnapshotMacdField(k) ==
  IF "macd" \in DOMAIN Val(Snapshot) /\ Val(Snapshot)["macd"] # None
  THEN Get(Val(Val(Snapshot)["macd"]), k, None)
  ELSE None

\* C13: for every non-null result of analyze_quote, the fields price,
\* change, volume, rsi, macd and macd_signal equal the corresponding fields
\* of the snapshot the data source delivered for the symbol (a present
\* price, change or volume is never replaced by None or a default), and
\* symbol equals the requested symbol.
C13_SnapshotFieldsKept ==
  (Done("analyze_quote") /\ ret # None)
  => /\ Val(ret).symbol = args.symbol
     /\ Snapshot # None
        => /\ Val(ret).price = SnapshotField("price")
           /\ Val(ret).change = SnapshotField("change")
           /\ Val(ret).volume = SnapshotField("volume")
           /\ Val(ret).rsi = SnapshotField("rsi")
           /\ Val(ret).macd = SnapshotMacdField("macd")
           /\ Val(ret).macd_signal = SnapshotMacdField("signal")

\* The market movers of the call's overview, and all of them in input order.
Movers == get_market_overview(args.page).movers

MoverList == Movers.gainers \o Movers.losers

\* The possible results of analyze_quote for a symbol of the call's market.
Analyses(symbol) ==
  analyze_quote(symbol, args.market[symbol].stock_data,
                args.market[symbol].indicators)

Analyzable(symbol) == None \notin Analyses(symbol)

\* The entry is the one of a result of analyze_quote for its symbol.
EntryOfAnalysis(entry) ==
  /\ DOMAIN entry = {"symbol", "action", "win_rate", "risk"}
  /\ \E analysis \in Analyses(entry.symbol) :
       /\ analysis # None
       /\ entry.action = Val(analysis).recommendation
       /\ entry.win_rate = Val(analysis).win_rate
       /\ entry.risk = Val(analysis).risk_percentage

\* C14: for every market overview (any number of gainers and losers),
\* get_top_recommendations returns at most 6 entries in non-increasing
\* win_rate order, and they are the six analyzable market movers with the
\* highest win_rate: no analyzable mover left out has a higher win_rate
\* than one returned. With three gainers and three losers that are all
\* analyzable it returns exactly 6 entries.
C14_TopSixByWinRate ==
  Done("get_top_recommendations")
  => LET r == Val(ret)
         returned == {r[i].symbol : i \in 1..Len(r)}
     IN  /\ Len(r) <= 6
         /\ \A i, j \in 1..Len(r) : i < j => r[i].win_rate >= r[j].win_rate
         /\ \A i \in 1..Len(r) :
              /\ EntryOfAnalysis(r[i])
              /\ \E k \in 1..Len(MoverList) : MoverList[k] = r[i].symbol
         /\ \A k \in 1..Len(MoverList) :
              (Analyzable(MoverList[k]) /\ MoverList[k] \notin returned)
              => \A analysis \in Analyses(MoverList[k]) :
                   \A i \in 1..Len(r) :
                     Val(analysis).win_rate <= r[i].win_rate
         /\ (/\ Len(Movers.gainers) = 3
             /\ Len(Movers.losers) = 3
             /\ \A k \in 1..Len(MoverList) : Analyzable(MoverList[k]))
            => Len(r) = 6

\* C15: analyze_all_quotes returns exactly one entry per market mover whose
\* analyze_quote result is non-null, in the input order (all gainers, then
\* all losers) without sorting, each entry carrying that symbol's
\* recommendation as action, its win_rate and its risk_percentage as risk;
\* movers whose analysis is None are omitted, and a failure of the overview
\* yields the empty list.
C15_OneEntryPerAnalyzableMover ==
  Done("analyze_all_quotes")
  => LET r == Val(ret)
         IsAnalyzable(symbol) == Analyzable(symbol)
         analyzable == SelectSeq(MoverList, IsAnalyzable)
     IN  /\ Len(r) = Len(analyzable)
         /\ \A i \in 1..Len(r) :
              /\ r[i].symbol = analyzable[i]
              /\ EntryOfAnalysis(r[i])
         /\ args.page = None => r = << >>

\* Witness of C15: of the gainers AAPL and MSFT and the loser GOOGL, MSFT is
\* not analysable; AAPL (win rate 55) stays before GOOGL (win rate 60).
C15_Witness ==
  /\ Done("analyze_all_quotes")
  /\ args.page # None
  /\ Val(args.page).gainers = <<"AAPL", "MSFT">>
  /\ Val(args.page).losers = <<"GOOGL">>
  /\ ~Analyzable("MSFT")
  /\ Val(ret) = <<[symbol |-> "AAPL", action |-> "Buy", win_rate |-> 55,
                   risk |-> 200],
                  [symbol |-> "GOOGL", action |-> "Sell", win_rate |-> 60,
                   risk |-> 500]>>

\* The possible results of analysing worker w's snapshot alone.
ResultsAlone(w) ==
  analyze_quote(args[w].symbol, args[w].stock_data, args[w].indicators)

\* C16: the analysis of one instrument depends only on that instrument's
\* snapshot: in any interleaving of the analyses of several instruments,
\* each result equals the result of analysing the same snapshot alone, and
\* no analysis writes state that another analysis reads (the local
\* variables of a call that has not started are untouched, and the data of
\* a call is the snapshot of its own symbol).
C16_ResultAsAlone ==
  \A w \in Workers :
    /\ pc[w] = "done" => ret[w] \in ResultsAlone(w)
    /\ pc[w] = "call" => locals[w] = NoLocals
    /\ pc[w] \in {"data", "analysis", "done"}
         => locals[w].data = get_stock_data(args[w].stock_data,
                                            args[w].indicators)

\* Witness of C16: worker 1 returned the analysis of AAPL (win rate 55)
\* while worker 2, analysing GOOGL, had fetched its data and not yet
\* analysed it.
C16_Witness ==
  /\ pc[1] = "done"
  /\ pc[2] = "data"
  /\ args[1].symbol = "AAPL"
  /\ args[2].symbol = "GOOGL"
  /\ locals[2].data # None
  /\ ret[1] # None
  /\ Val(ret[1]).win_rate = 55

\* No price of the list is lower than the one before it: every loss is 0,
\* and so is their average.
NoDrop(items) == \A i \in 1..(Len(items) - 1) : items[i + 1] >= items[i]

\* C17: for every price list, RSIIndicator.calculate returns None when the
\* list is empty, not a sequence, or has fewer than period + 1 samples
\* (fewer than period differences), and otherwise returns a score between
\* 0 and 100 inclusive, which is exactly 100 when the average loss is 0.
C17_RsiScoreInRange ==
  Done("rsi_calculate")
  => LET items == args.prices.items
         unknown == \/ args.prices.kind # "list"
                    \/ items = << >>
                    \/ Len(items) < args.period + 1
         score == Val(Val(ret))
     IN  /\ unknown => Val(ret) = None
         /\ ~unknown
            => /\ Val(ret) # None
               /\ score[2] > 0
               /\ 0 <= score[1]
               /\ score[1] <= 100 * score[2]
               /\ NoDrop(items) => score = <<100, 1>>

\* Witness of C17: 15 prices alternating between 11 and 10 (seven gains
\* and seven losses of 1) gave the period-14 score 50.
C17_Witness ==
  /\ Done("rsi_calculate")
  /\ args.period = 14
  /\ Len(args.prices.items) = 15
  /\ ~NoDrop(args.prices.items)
  /\ Val(ret) = Some(<<50, 1>>)

\* C18: MACDIndicator.calculate returns either three present values or
\* (None, None, None), never one or two present; it returns the all-None
\* triple exactly when the input is not a sequence or has fewer than
\* slow_period + signal_period samples, and in a present triple
\* histogram = line - signal.
C18_MacdTripleAllOrNone ==
  Done("macd_calculate")
  => LET triple == Val(ret)
         unknown == \/ args.prices.kind # "list"
                    \/ Len(args.prices.items)
                         < args.periods[2] + args.periods[3]
     IN  /\ Len(triple) = 3
         /\ \/ triple = <<None, None, None>>
            \/ \A i \in 1..3 : triple[i] # None
         /\ (triple = <<None, None, None>>) <=> unknown
         /\ triple # <<None, None, None>>
            => /\ Val(triple[3]) = RatSub(Val(triple[1]), Val(triple[2]))
               /\ Val(triple[1]) = RatAdd(Val(triple[2]), Val(triple[3]))

\* Witness of C18: five prices, as many as slow_period + signal_period for
\* the periods (2, 3, 2), gave a present triple with a histogram above 0.
C18_Witness ==
  /\ Done("macd_calculate")
  /\ args.periods = <<2, 3, 2>>
  /\ Len(args.prices.items) = 5
  /\ Val(ret)[1] # None
  /\ Val(ret)[3] # None
  /\ Val(Val(ret)[3])[1] > 0

\* The rule of C19, its checks in the order strong_buy, buy, strong_sell,
\* sell, neutral.
ClaimedMacdSignal(line, signal, hist) ==
  IF line > signal /\ hist > 0 /\ line > 0 THEN "strong_buy"
  ELSE IF line > signal /\ hist > 0 THEN "buy"
  ELSE IF line < signal /\ hist < 0 /\ line < 0 THEN "strong_sell"
  ELSE IF line < signal /\ hist < 0 THEN "sell"
  ELSE "neutral"

\* C19: for every (line, signal, histogram), MACDIndicator.get_signal
\* returns the label the ordered rule gives when its checks are evaluated
\* strong_buy, buy, strong_sell, sell, neutral with the first match
\* winning; the result is always one of these five labels and is neutral
\* when any of the three inputs is unknown.
C19_MacdSignalByOrderedRule ==
  Done("macd_get_signal")
  => /\ Val(ret) \in {"strong_buy", "buy", "strong_sell", "sell", "neutral"}
     /\ (args.macd = None \/ args.signal = None \/ args.hist = None)
          => Val(ret) = "neutral"
     /\ (args.macd # None /\ args.signal # None /\ args.hist # None)
          => Val(ret) = ClaimedMacdSignal(Val(args.macd), Val(args.signal),
                                          Val(args.hist))

\* Witness of C19: a line of 0.5 above a signal of 0 with a histogram of
\* 0.5 gave strong_buy, the first check of the rule.
C19_Witness ==
  /\ Done("macd_get_signal")
  /\ args.macd = Some(50)
  /\ args.signal = Some(0)
  /\ args.hist = Some(50)
  /\ Val(ret) = "strong_buy"

\* The classification of C20 for a score in hundredths, or None.
ClaimedRsiSignal(rsi) ==
  IF rsi # None /\ Val(rsi) > 7000 THEN "overbought"
  ELSE IF rsi # None /\ Val(rsi) < 3000 THEN "oversold"
  ELSE "neutral"

\* C20: for every score, the RSI classification is overbought iff
\* score > 70, oversold iff score < 30 and neutral otherwise (the values 70
\* and 30 and the unknown score are neutral), and the RSI tag that the
\* signal aggregation adds for a snapshot is exactly this classification
\* whenever it is not neutral.
C20_RsiClassification ==
  /\ Done("rsi_get_signal")
     => /\ Val(ret) = ClaimedRsiSignal(args.rsi)
        /\ (Val(ret) = "overbought")
             <=> (args.rsi # None /\ Val(args.rsi) > 7000)
        /\ (Val(ret) = "oversold")
             <=> (args.rsi # None /\ Val(args.rsi) < 3000)
        /\ args.rsi \in {None, Some(3000), Some(7000)}
             => Val(ret) = "neutral"
  /\ Done("_analyze_technical_indicators")
     => LET signals == Val(ret).signals
            tags == {signals[i] : i \in 1..Len(signals)}
                      \cap {"overbought", "oversold"}
            classification == rsi_get_signal(Get(args.data, "rsi", None))
        IN  /\ classification # "neutral" => tags = {classification}
            /\ classification = "neutral" => tags = {}
            /\ classification # "neutral" => signals[1] = classification

\* Witness of C20: the score 70 was classified neutral.
C20_Witness ==
  /\ Done("rsi_get_signal")
  /\ args.rsi = Some(7000)
  /\ Val(ret) = "neutral"

\* The summary a finished call of analyze_volume returned.
Summary == Val(ret)

\* The inputs of analyze_volume for which the default summary is claimed.
NothingToAnalyze ==
  \/ args.prices.kind # "list"
  \/ args.volumes.kind # "list"
  \/ Len(args.prices.items) # Len(args.volumes.items)
  \/ Len(args.prices.items) < 2

\* C21: analyze_volume returns exactly the default summary (average 0,
\* trend neutral, correlation 0, no anomaly, normal_volume) whenever an
\* input is None, the two lists differ in length, or they hold fewer than
\* two samples; it returns a summary, never an exception, in every case.
C21_DefaultSummary ==
  Done("analyze_volume") =>
    /\ ret # None
    /\ DOMAIN Summary = {"average_volume", "volume_trend",
                         "price_volume_correlation", "unusual_volume",
                         "volume_signal"}
    /\ NothingToAnalyze =>
         /\ Summary.average_volume = RatInt(0)
         /\ Summary.volume_trend = "neutral"
         /\ Summary.price_volume_correlation.sign = 0
         /\ Summary.price_volume_correlation.square = RatInt(0)
         /\ Summary.unusual_volume = FALSE
         /\ Summary.volume_signal = "normal_volume"

\* Lists of different lengths, one of them long enough for a trend, were
\* analysed.
C21_Witness ==
  /\ Done("analyze_volume")
  /\ args.prices.kind = "list"
  /\ args.volumes.kind = "list"
  /\ Len(args.prices.items) = 2
  /\ Len(args.volumes.items) >= VOLUME_TREND_PERIOD
  /\ Summary.volume_signal = "normal_volume"

\* The signal the stated priority order gives.
ClaimedVolumeSignal(current, avg, trend, unusual) ==
  IF RatSub(RatInt(current), RatMul(RatInt(2), avg))[1] > 0
       /\ trend = "increasing" THEN "strong_volume"
  ELSE IF RatSub(RatInt(current), RatDiv(avg, RatInt(2)))[1] < 0
            /\ trend = "decreasing" THEN "weak_volume"
  ELSE IF unusual THEN "unusual_volume"
  ELSE "normal_volume"

\* C22: the volume signal is strong_volume when the current volume is above
\* twice the average and the trend is increasing; else weak_volume when it
\* is below half the average and the trend is decreasing; else
\* unusual_volume when the anomaly flag is set; else normal_volume. In
\* every summary strong_volume comes with an increasing trend, weak_volume
\* with a decreasing one and unusual_volume with the anomaly flag.
C22_VolumeSignalByPriority ==
  /\ Done("_generate_volume_signal") =>
       Val(ret) = ClaimedVolumeSignal(args.current_volume, args.avg_volume,
                                      args.volume_trend, args.unusual_volume)
  /\ Done("analyze_volume") =>
       /\ Summary.volume_signal = "strong_volume" =>
            Summary.volume_trend = "increasing"
       /\ Summary.volume_signal = "weak_volume" =>
            Summary.volume_trend = "decreasing"
       /\ Summary.volume_signal = "unusual_volume" =>
            Summary.unusual_volume = TRUE
       /\ ~NothingToAnalyze =>
            Summary.volume_signal =
              ClaimedVolumeSignal(args.volumes.items[Len(args.volumes.items)],
                                  Summary.average_volume,
                                  Summary.volume_trend,
                                  Summary.unusual_volume)

\* A summary with a volume above twice the average, an increasing trend and
\* the anomaly flag was given strong_volume.
C22_Witness ==
  /\ Done("analyze_volume")
  /\ Summary.volume_signal = "strong_volume"
  /\ Summary.unusual_volume = TRUE
  /\ Summary.average_volume # RatInt(0)

\* C25: WebScraper._calculate_macd returns line, signal and histogram, all
\* three present, for every price list with enough samples (the 26 the
\* function asks for), and the triple of None only for a list with fewer.
C25_ScraperMacdPresentWhenEnough ==
  Done("_calculate_macd") =>
    LET triple == Val(ret)
        enough == /\ args.prices.kind = "list"
                  /\ Len(args.prices.items) >= SCRAPER_MACD_MIN_PRICES
    IN  /\ enough => \A i \in 1..3 : triple[i] # None
        /\ triple = NoTriple => ~enough

BuySide == {"Buy", "Strong Buy"}

\* The analysis MarketData.analyze_stock made for the call of analyze_quote.
QuoteAnalysis == analyze_stock(args.stock_data, args.indicators)

HasMacdTag(signals) ==
  \E i \in 1..Len(signals) : signals[i] \in {"bullish_macd", "bearish_macd"}

\* C26: in every result of analyze_quote the trend alone decides the
\* direction: an uptrend gives Buy or Strong Buy and a downtrend gives Sell
\* or Strong Sell whatever the RSI and MACD tags are, and Hold is given only
\* for a sideways trend without a MACD tag.
C26_TrendDecidesDirection ==
  (Done("analyze_quote") /\ ret # None)
  => /\ Val(ret).trend = "uptrend" => Val(ret).recommendation \in BuySide
     /\ Val(ret).trend = "downtrend" => Val(ret).recommendation \in SellSide
     /\ Val(ret).recommendation = "Hold" =>
          /\ Val(ret).trend = "sideways"
          /\ ~HasMacdTag(QuoteAnalysis.signals)

\* An uptrend against a bearish MACD tag and an overbought RSI gave Buy.
C26_Witness ==
  /\ Done("analyze_quote")
  /\ ret # None
  /\ Val(ret).trend = "uptrend"
  /\ QuoteAnalysis.signals =
       <<"overbought", "bearish_macd", "trend_following_buy">>
  /\ Val(ret).recommendation = "Buy"

\* C27: in every result of analyze_quote trend_strength is weak, the
\* recommendation is neither Strong Buy nor Strong Sell, and win_rate is 50,
\* 55 or 60, or 0 in the zero-record; the cap of 90 is not reached.
C27_StrengthAlwaysWeak ==
  (Done("analyze_quote") /\ ret # None)
  => /\ Val(ret).trend_strength = "weak"
     /\ Val(ret).recommendation \notin {"Strong Buy", "Strong Sell"}
     /\ Val(ret).win_rate \in {0, 50, 55, 60}
     /\ Val(ret).win_rate = 0 =>
          /\ Val(ret).entry_price = 0
          /\ Val(ret).stop_loss = 0
          /\ Val(ret).take_profit = 0
          /\ Val(ret).risk_percentage = 0
     /\ Val(ret).win_rate < WIN_RATE_CAP

\* A snapshot with an RSI tag and a MACD tag was given the win rate 60.
C27_Witness ==
  /\ Done("analyze_quote")
  /\ ret # None
  /\ Occurrences(QuoteAnalysis.signals, CountedTags) = 2
  /\ Val(ret).win_rate = 60
  /\ Val(ret).trend_strength = "weak"

\* The price handed to a call of _calculate_risk_metrics, in hundredths.
RiskPrice ==
  IF "price" \in DOMAIN args.data THEN Val(args.data["price"]) ELSE 0

\* C28: for every trend, volatility and price >= 0 the risk record has
\* stop_loss <= entry_price <= take_profit, both strictly when the price is
\* at least 1, and before rounding the distance from the entry to the
\* target is three times the distance from the stop to the entry.
C28_StopEntryTargetOrdered ==
  /\ Done("_calculate_risk_metrics") =>
       /\ Val(ret).stop_loss <= Val(ret).entry_price
       /\ Val(ret).entry_price <= Val(ret).take_profit
  /\ (Done("_calculate_risk_metrics") /\ RiskSucceeds) =>
       LET entry == entry_price_x100(RiskPrice, args.price["trend"])
           stop == entry * (100 - stop_loss_pct(args.price["volatility"]))
           target == entry * (100 + take_profit_pct(args.price["volatility"]))
       IN  /\ target - 100 * entry = 3 * (100 * entry - stop)
           /\ RiskPrice >= 100 =>
                /\ Val(ret).stop_loss < Val(ret).entry_price
                /\ Val(ret).entry_price < Val(ret).take_profit

\* A price of exactly 1.00 in an uptrend of low volatility gave the entry
\* 0.99 between the stop 0.97 and the target 1.05.
C28_Witness ==
  /\ Done("_calculate_risk_metrics")
  /\ RiskSucceeds
  /\ RiskPrice = 100
  /\ args.price["trend"] = "uptrend"
  /\ args.price["volatility"] = "low"
  /\ Val(ret).stop_loss = 97
  /\ Val(ret).entry_price = 99
  /\ Val(ret).take_profit = 105

\* C23: the first request of an AlphaVantageAPI constructed with an initial
\* API key carries that key: no key being used yet, the key manager selects
\* the key of the caller before the keys of its pool.
C23_FirstRequestCarriesInitialKey ==
  ("test_api_key" \in DOMAIN key_manager.key_usage /\ issued.first # None)
    => issued.first = Some("test_api_key")

\* The client of a call of get_quote_data whose responses are all
\* rate-limit notices.
RateLimited(t) ==
  op[t] = "get_quote_data" /\ args[t].upstream = "rate_limited"

\* Every key is at its daily limit.
KeysExhausted ==
  \A k \in DOMAIN key_manager.key_usage :
     key_manager.key_usage[k].count >= key_manager.key_usage[k].daily_limit

\* C24: when every response is a rate-limit notice, get_quote_data returns
\* None once the keys are exhausted: it neither waits for a key nor sends
\* another request.
C24_RetryEndsOnceKeysExhausted ==
  \A t \in Clients :
     (RateLimited(t) /\ KeysExhausted)
       => pc[t] \notin {"sleep", "sleeping", "fallback", "request"}

\* C29: in every interleaving of get_api_key and report_error the count of
\* each key stays at or below its daily limit, and the key that get_api_key
\* selected had a count below its daily limit when it was selected.
C29_CountWithinDailyLimit ==
  /\ \A k \in DOMAIN key_manager.key_usage :
        key_manager.key_usage[k].count <= key_manager.key_usage[k].daily_limit
  /\ \A t \in Clients :
        pc[t] \in {"read_count", "write_usage"}
          => locals[t].selected_count < DAILY_LIMIT

\* The latest n grants of a key were each less than a minute after the one
\* before.
InQuickSuccession(times, n) ==
  /\ Len(times) >= n
  /\ \A i \in (Len(times) - n + 2)..Len(times) :
        times[i] - times[i - 1] < MINUTE

\* C30: in a sequential history get_api_key selects a key at most
\* minute_limit times within a window shorter than a minute, and after
\* minute_limit uses in quick succession the key is unavailable until a
\* minute has passed since its last use.
C30_MinuteLimitPerWindow ==
  \A k \in DOMAIN issued.grants :
     LET times == issued.grants[k]
         usage == key_manager.key_usage[k]
     IN  /\ Len(times) > MINUTE_LIMIT
            => times[Len(times)] - times[Len(times) - MINUTE_LIMIT] >= MINUTE
         /\ (InQuickSuccession(times, MINUTE_LIMIT)
             /\ clock - times[Len(times)] < MINUTE)
            => k \notin Range(_get_available_keys(key_manager, clock))

\* A key was selected minute_limit times within a minute, then asked for
\* again within that minute, and selected after the wait.
C30_Witness ==
  \E k \in DOMAIN issued.grants :
     LET times == issued.grants[k]
     IN  /\ Len(times) = MINUTE_LIMIT + 1
         /\ times[MINUTE_LIMIT] - times[1] < MINUTE
         /\ times[MINUTE_LIMIT + 1] - times[MINUTE_LIMIT] >= MINUTE
         /\ times[MINUTE_LIMIT + 1] - times[MINUTE_LIMIT] < DAY

=============================================================================
